---- MODULE Spec2Model ----
(***************************************************************************)
(* A model of hypermine's chunk store (common/src/node.rs) and background  *)
(* chunk loader (common/src/chunk_loader.rs).                              *)
(*                                                                         *)
(* The cell graph (graph.rs), the cell's combinatorics (dodeca.rs) and the *)
(* world generator (worldgen.rs) are not part of the sources at hand; they *)
(* are modelled from the specification on the smallest cell with the       *)
(* dodecahedron's local shape: three sides around two vertices, each       *)
(* vertex lying on three sides and ending three edges.                     *)
(***************************************************************************)
EXTENDS Integers, Sequences, FiniteSets, TLC

VARIABLES
    graph,      \* the cell graph with its per-node chunks (DualGraph)
    loader,     \* the ChunkLoader: capacity, fill, and both channels with the worker tasks between them
    last,       \* the call of the chunk store made by the last step, if any, and the value it returned
    panicked,   \* TRUE once a call has panicked (unwrap/expect/index on None)
    budget,     \* the calls the environment may still make to populate_chunk, to update_block and to the renderer
    hist        \* history: what happened since the last drive()

vars == <<graph, loader, last, panicked, budget, hist>>

----------------------------------------------------------------------------
(* Bounds of the model *)

MaxNodes == 2
MaxCapacity == 2
MaxOwnerCalls == 1
MaxStorePopulates == 2
MaxStoreUpdates == 2
MaxRenders == 1
MaxStoreCalls == 4
MaxTanhDistance == 2
MaxCastPopulates == 2
MaxCasts == 1
MaxDt == 2
MaxSteps == 1
MaxBounds == 3
MaxCollisions == 4
MaxChecks == 1

(* ChunkLayout::dimension: the number of voxels on one axis of a chunk *)
Dimension == 2

----------------------------------------------------------------------------
(* Option<T>: None is the empty sequence, Some(x) the one-element sequence *)

None == <<>>
Some(x) == <<x>>
IsSome(o) == o # None
Unwrap(o) == o[1]

(* the element of a one-element set; { F(x) : x \in {e} } computes e once   *)
(* where F uses it several times                                            *)
The(S) == CHOOSE x \in S : TRUE

(* Option::or *)
OptionOr(a, b) == IF IsSome(a) THEN a ELSE b

----------------------------------------------------------------------------
(* dodeca.rs, on a cell of three sides that meet at both of its vertices *)

Vertices == 0 .. 1
Sides == 0 .. 2
NodeIds == 0 .. (MaxNodes - 1)
ROOT == 0

(* CoordAxis X = 0, Y = 1, Z = 2 and CoordDirection, in iteration order *)
CoordAxes == <<0, 1, 2>>
CoordDirections == <<"Plus", "Minus">>

(* the three sides that meet at the vertex, in ascending order *)
canonical_sides(v) == <<0, 1, 2>>

(* the vertex reached along the edge opposite each canonical side *)
adjacent_vertices(v) == <<1 - v, 1 - v, 1 - v>>

----------------------------------------------------------------------------
(* Voxel data *)

Materials == {"Void", "Dirt"}

Solid(m) == [tag |-> "Solid", mat |-> m]
Dense(d) == [tag |-> "Dense", data |-> d]

is_solid(v) == v.tag = "Solid"

Pow(b, e) == IF e = 0 THEN 1 ELSE IF e = 1 THEN b ELSE IF e = 2 THEN b * b ELSE b * b * b

(* Coords::to_index: a zero-based index into the padded array *)
to_index(coords, chunk_size) ==
    LET chunk_size_with_margin == chunk_size + 2
    IN  (coords[1] + 1)
        + (coords[2] + 1) * chunk_size_with_margin
        + (coords[3] + 1) * Pow(chunk_size_with_margin, 2)

(* VoxelData::data_mut: the data after the call, promoted to Dense *)
data_mut(v, dimension) ==
    IF v.tag = "Dense" THEN v
    ELSE Dense([i \in 1 .. Pow(dimension + 2, 3) |-> v.mat])

(* VoxelData::get *)
voxel_get(v, index) == IF v.tag = "Dense" THEN v.data[index + 1] ELSE v.mat

(* the x, y, z of the loops of clear_margin, for a zero-based array index *)
IsMarginIndex(i, lwm) ==
    LET x == i % lwm
        y == (i \div lwm) % lwm
        z == i \div (lwm * lwm)
    IN  x = 0 \/ x = lwm - 1 \/ y = 0 \/ y = lwm - 1 \/ z = 0 \/ z = lwm - 1

(* VoxelData::clear_margin *)
clear_margin(v, dimension) ==
    LET data == data_mut(v, dimension).data
        lwm == dimension + 2
    IN  Dense([i \in 1 .. Pow(lwm, 3) |->
                IF IsMarginIndex(i - 1, lwm) THEN "Void" ELSE data[i]])

(* the loops of from_serializable: the voxels of the wire form are copied   *)
(* in x, then y, then z order, from input_index on                          *)
RECURSIVE copy_from_serializable(_, _, _, _)
copy_from_serializable(data, voxels, dimension, input_index) ==
    IF input_index >= Pow(dimension, 3) THEN data
    ELSE LET x == input_index % dimension
             y == (input_index \div dimension) % dimension
             z == input_index \div (dimension * dimension)
         IN  copy_from_serializable(
                 [data EXCEPT ![to_index(<<x, y, z>>, dimension) + 1] = voxels[input_index + 1]],
                 voxels, dimension, input_index + 1)

(* VoxelData::from_serializable *)
from_serializable(serializable, dimension) ==
    IF Len(serializable.voxels) # Pow(dimension, 3) THEN None
    ELSE Some(Dense(copy_from_serializable([i \in 1 .. Pow(dimension + 2, 3) |-> "Void"],
                                           serializable.voxels, dimension, 0)))

(* to_serializable pushing the voxels in z, then y, then x order *)
to_serializable_x_major(v, dimension) ==
    IF v.tag # "Dense" THEN [panicked |-> TRUE, voxels |-> <<>>]
    ELSE [panicked |-> FALSE,
          voxels |-> [k \in 1 .. Pow(dimension, 3) |->
                        v.data[to_index(<<(k - 1) \div (dimension * dimension),
                                          ((k - 1) \div dimension) % dimension,
                                          (k - 1) % dimension>>, dimension) + 1]]]

(* VoxelData::to_serializable: the k-th voxel pushed is the one at          *)
(* x = (k-1) mod d, y = ((k-1) div d) mod d, z = (k-1) div d^2; the call    *)
(* panics unless the data is Dense                                          *)
to_serializable(v, dimension) ==
    IF v.tag # "Dense" THEN [panicked |-> TRUE, voxels |-> <<>>]
    ELSE [panicked |-> FALSE,
          voxels |-> [k \in 1 .. Pow(dimension, 3) |->
                        v.data[to_index(<<(k - 1) % dimension,
                                          ((k - 1) \div dimension) % dimension,
                                          (k - 1) \div (dimension * dimension)>>, dimension) + 1]]]

----------------------------------------------------------------------------
(* Chunks and nodes *)

Fresh == [tag |-> "Fresh"]
Generating == [tag |-> "Generating"]
Populated(voxels, modified, surface, old_surface) ==
    [tag |-> "Populated", voxels |-> voxels, modified |-> modified,
     surface |-> surface, old_surface |-> old_surface]

ChunkId(node, vertex) == [node |-> node, vertex |-> vertex]
ChunkIds == [node : NodeIds, vertex : Vertices]

(* Chunks::default() *)
DefaultChunks == [v \in Vertices |-> Fresh]

Node(state, chunks) == [state |-> state, chunks |-> chunks]

----------------------------------------------------------------------------
(* graph.rs, from the specification: an arena of nodes, each with its      *)
(* neighbors by side, the side of its parent, and an optional value        *)

GraphNew ==
    [len |-> 1,
     neighbors |-> [n \in NodeIds |-> [s \in Sides |-> None]],
     parent |-> [n \in NodeIds |-> None],
     fresh |-> <<ROOT>>,
     value |-> [n \in NodeIds |-> None]]

GraphNodes(g) == 0 .. (g.len - 1)

neighbor(g, node, side) == g.neighbors[node][side]

graph_get(g, node) == g.value[node]

(* Graph::ensure_neighbor / insert_child: creates the neighbor when absent *)
ensure_neighbor(g, node, side) ==
    IF IsSome(neighbor(g, node, side)) THEN g
    ELSE LET id == g.len
         IN  [g EXCEPT !.len = id + 1,
                       !.neighbors[node][side] = Some(id),
                       !.neighbors[id][side] = Some(node),
                       !.parent[id] = Some(side),
                       !.fresh = Append(g.fresh, id)]

----------------------------------------------------------------------------
(* node.rs: the chunk store *)

(* worldgen's NodeState, from the specification: derived from the parent's *)
(* state; here the distance from the root                                  *)
NodeStateRoot == 0
NodeStateChild(parent_state) == parent_state + 1

(* populate_node *)
populate_node(g, node) ==
    LET side == g.parent[node]
        parent == IF IsSome(side) THEN neighbor(g, node, Unwrap(side)) ELSE None
        pval == IF IsSome(parent) THEN graph_get(g, Unwrap(parent)) ELSE None
        state == IF IsSome(pval) THEN NodeStateChild(Unwrap(pval).state) ELSE NodeStateRoot
    IN  [g EXCEPT !.value[node] = Some(Node(state, DefaultChunks))]

RECURSIVE populate_nodes_from(_, _, _)
populate_nodes_from(g, fresh, i) ==
    IF i > Len(fresh) THEN g
    ELSE populate_nodes_from(populate_node(g, fresh[i]), fresh, i + 1)

(* populate_fresh_nodes: clears the fresh list, then populates its nodes in order *)
populate_fresh_nodes(g) ==
    populate_nodes_from([g EXCEPT !.fresh = <<>>], g.fresh, 1)

(* Graph::get_chunk and the read half of Graph::get_chunk_mut *)
get_chunk(g, chunk) ==
    IF IsSome(graph_get(g, chunk.node))
    THEN Some(Unwrap(graph_get(g, chunk.node)).chunks[chunk.vertex])
    ELSE None

(* the write half of Graph::get_chunk_mut: *get_chunk_mut(chunk).unwrap() = c *)
set_chunk(g, chunk, c) ==
    [g EXCEPT !.value[chunk.node] = Some([Unwrap(@) EXCEPT !.chunks[chunk.vertex] = c])]

(* Graph::get_chunk_neighbor *)
get_chunk_neighbor(g, chunk, coord_axis, coord_direction) ==
    IF coord_direction = "Plus"
    THEN Some(ChunkId(chunk.node, adjacent_vertices(chunk.vertex)[coord_axis + 1]))
    ELSE LET n == neighbor(g, chunk.node, canonical_sides(chunk.vertex)[coord_axis + 1])
         IN  IF IsSome(n) THEN Some(ChunkId(Unwrap(n), chunk.vertex)) ELSE None

(* CoordAxis::iter() x CoordDirection::iter(), in the order of the nested loops *)
AxisDirections ==
    <<  <<CoordAxes[1], CoordDirections[1]>>, <<CoordAxes[1], CoordDirections[2]>>,
        <<CoordAxes[2], CoordDirections[1]>>, <<CoordAxes[2], CoordDirections[2]>>,
        <<CoordAxes[3], CoordDirections[1]>>, <<CoordAxes[3], CoordDirections[2]>> >>

(* clear_solid_chunk_margin leaving the surface handle in place *)
clear_solid_chunk_margin_keeps_surface(g, chunk) ==
    LET c == get_chunk(g, chunk)
    IN  IF ~IsSome(c) \/ Unwrap(c).tag # "Populated"
        THEN [graph |-> g, ret |-> FALSE]
        ELSE LET p == Unwrap(c)
             IN  IF is_solid(p.voxels)
                 THEN [graph |-> set_chunk(g, chunk,
                                    Populated(clear_margin(p.voxels, Dimension), p.modified,
                                              p.surface, p.old_surface)),
                       ret |-> TRUE]
                 ELSE [graph |-> g, ret |-> TRUE]

(* Graph::clear_solid_chunk_margin: the graph after the call and the value returned *)
clear_solid_chunk_margin(g, chunk) ==
    LET c == get_chunk(g, chunk)
    IN  IF ~IsSome(c) \/ Unwrap(c).tag # "Populated"
        THEN [graph |-> g, ret |-> FALSE]
        ELSE LET p == Unwrap(c)
             IN  IF is_solid(p.voxels)
                 THEN [graph |-> set_chunk(g, chunk,
                                    Populated(clear_margin(p.voxels, Dimension), p.modified,
                                              None, OptionOr(p.surface, p.old_surface))),
                       ret |-> TRUE]
                 ELSE [graph |-> g, ret |-> TRUE]

RECURSIVE clear_adjacent_from(_, _, _)
clear_adjacent_from(g, chunk, i) ==
    IF i > Len(AxisDirections) THEN g
    ELSE LET nb == get_chunk_neighbor(g, chunk, AxisDirections[i][1], AxisDirections[i][2])
         IN  IF IsSome(nb)
             THEN clear_adjacent_from(clear_solid_chunk_margin(g, Unwrap(nb)).graph, chunk, i + 1)
             ELSE clear_adjacent_from(g, chunk, i + 1)

(* Graph::clear_adjacent_solid_chunk_margins *)
clear_adjacent_solid_chunk_margins(g, chunk) == clear_adjacent_from(g, chunk, 1)

(* the loop of populate_chunk looking only at the neighbors in the chunk's  *)
(* own node                                                                 *)
RECURSIVE scan_neighbors_plus_only(_, _, _)
scan_neighbors_plus_only(g, chunk, i) ==
    IF i > Len(AxisDirections) THEN "keep"
    ELSE LET nb == get_chunk_neighbor(g, chunk, AxisDirections[i][1], AxisDirections[i][2])
         IN  IF ~IsSome(nb) \/ AxisDirections[i][2] # "Plus"
             THEN scan_neighbors_plus_only(g, chunk, i + 1)
             ELSE LET c == get_chunk(g, Unwrap(nb))
                  IN  IF ~IsSome(c) THEN "panic"
                      ELSE IF Unwrap(c).tag = "Populated" /\ Unwrap(c).modified THEN "clear"
                      ELSE scan_neighbors_plus_only(g, chunk, i + 1)

(* the 'outer loop of populate_chunk: "clear" when a modified neighbor is    *)
(* found, "panic" when self[chunk_id] meets a node without a value first,    *)
(* "keep" when the loop runs to its end                                      *)
RECURSIVE scan_neighbors_from(_, _, _)
scan_neighbors_from(g, chunk, i) ==
    IF i > Len(AxisDirections) THEN "keep"
    ELSE LET nb == get_chunk_neighbor(g, chunk, AxisDirections[i][1], AxisDirections[i][2])
         IN  IF ~IsSome(nb) THEN scan_neighbors_from(g, chunk, i + 1)
             ELSE LET c == get_chunk(g, Unwrap(nb))
                  IN  IF ~IsSome(c) THEN "panic"
                      ELSE IF Unwrap(c).tag = "Populated" /\ Unwrap(c).modified THEN "clear"
                      ELSE scan_neighbors_from(g, chunk, i + 1)

(* populate_chunk committing modified data without clearing the margins of  *)
(* the solid chunks next to it                                              *)
populate_chunk_keeps_adjacent(g, chunk, new_data, modified) ==
    LET scan == IF is_solid(new_data) THEN scan_neighbors_from(g, chunk, 1) ELSE "keep"
        data == IF scan = "clear" THEN clear_margin(new_data, Dimension) ELSE new_data
    IN  IF scan = "panic" THEN [graph |-> g, panicked |-> TRUE]
        ELSE IF ~IsSome(get_chunk(g, chunk)) THEN [graph |-> g, panicked |-> TRUE]
        ELSE [graph |-> set_chunk(g, chunk, Populated(data, modified, None, None)),
              panicked |-> FALSE]

(* Graph::populate_chunk: the graph after the call and whether it panicked *)
populate_chunk(g, chunk, new_data, modified) ==
    LET scan == IF is_solid(new_data) THEN scan_neighbors_from(g, chunk, 1) ELSE "keep"
        data == IF scan = "clear" THEN clear_margin(new_data, Dimension) ELSE new_data
        g1 == IF modified THEN clear_adjacent_solid_chunk_margins(g, chunk) ELSE g
    IN  IF scan = "panic" THEN [graph |-> g, panicked |-> TRUE]
        ELSE IF ~IsSome(get_chunk(g1, chunk)) THEN [graph |-> g1, panicked |-> TRUE]
        ELSE [graph |-> set_chunk(g1, chunk, Populated(data, modified, None, None)),
              panicked |-> FALSE]

BlockUpdate(chunk_id, coords, new_material) ==
    [chunk_id |-> chunk_id, coords |-> coords, new_material |-> new_material]

(* update_block unwrapping the chunk it is given *)
update_block_unwraps(g, block_update) ==
    LET c == get_chunk(g, block_update.chunk_id)
    IN  IF ~IsSome(c) \/ Unwrap(c).tag # "Populated"
        THEN [graph |-> g, ret |-> FALSE, panicked |-> TRUE]
        ELSE LET p == Unwrap(c)
                 v0 == IF is_solid(p.voxels) THEN clear_margin(p.voxels, Dimension) ELSE p.voxels
                 v1 == data_mut(v0, Dimension)
                 index == to_index(block_update.coords, Dimension)
                 v2 == Dense([v1.data EXCEPT ![index + 1] = block_update.new_material])
                 g1 == set_chunk(g, block_update.chunk_id,
                                 Populated(v2, TRUE, None, OptionOr(p.surface, p.old_surface)))
             IN  [graph |-> clear_adjacent_solid_chunk_margins(g1, block_update.chunk_id),
                  ret |-> TRUE, panicked |-> FALSE]

(* update_block leaving the neighbors of the chunk as they are *)
update_block_keeps_neighbors(g, block_update) ==
    LET c == get_chunk(g, block_update.chunk_id)
    IN  IF ~IsSome(c) \/ Unwrap(c).tag # "Populated"
        THEN [graph |-> g, ret |-> FALSE, panicked |-> FALSE]
        ELSE LET p == Unwrap(c)
                 v0 == IF is_solid(p.voxels) THEN clear_margin(p.voxels, Dimension) ELSE p.voxels
                 v1 == data_mut(v0, Dimension)
                 index == to_index(block_update.coords, Dimension)
                 v2 == Dense([v1.data EXCEPT ![index + 1] = block_update.new_material])
             IN  [graph |-> set_chunk(g, block_update.chunk_id,
                                      Populated(v2, TRUE, None,
                                                OptionOr(p.surface, p.old_surface))),
                  ret |-> TRUE, panicked |-> FALSE]

(* Graph::update_block: the graph after the call, the value returned, and  *)
(* whether expect("coords are in-bounds") panicked                         *)
update_block(g, block_update) ==
    LET c == get_chunk(g, block_update.chunk_id)
    IN  IF ~IsSome(c) \/ Unwrap(c).tag # "Populated"
        THEN [graph |-> g, ret |-> FALSE, panicked |-> FALSE]
        ELSE LET p == Unwrap(c)
                 v0 == IF is_solid(p.voxels) THEN clear_margin(p.voxels, Dimension) ELSE p.voxels
                 v1 == data_mut(v0, Dimension)
                 index == to_index(block_update.coords, Dimension)
             IN  IF index >= Len(v1.data)
                 THEN [graph |-> set_chunk(g, block_update.chunk_id,
                                           Populated(v1, p.modified, p.surface, p.old_surface)),
                       ret |-> FALSE, panicked |-> TRUE]
                 ELSE LET v2 == Dense([v1.data EXCEPT ![index + 1] = block_update.new_material])
                          g1 == set_chunk(g, block_update.chunk_id,
                                          Populated(v2, TRUE, None,
                                                    OptionOr(p.surface, p.old_surface)))
                      IN  [graph |-> clear_adjacent_solid_chunk_margins(g1, block_update.chunk_id),
                           ret |-> TRUE, panicked |-> FALSE]

----------------------------------------------------------------------------
(* worldgen.rs, from the specification *)

(* ChunkParams::new: the parameters are computable when the node has a      *)
(* value and a node across one of the vertex's sides has one too            *)
chunk_params_new(dimension, g, node, chunk) ==
    IF IsSome(graph_get(g, node))
       /\ \E i \in 1 .. 3 :
            LET n == neighbor(g, node, canonical_sides(chunk)[i])
            IN  IsSome(n) /\ IsSome(graph_get(g, Unwrap(n)))
    THEN Some([dimension |-> dimension, chunk |-> chunk,
               state |-> Unwrap(graph_get(g, node)).state])
    ELSE None

(* ChunkParams::generate_voxels: deterministic in the parameters; uniform   *)
(* ground except at one vertex of the root                                  *)
generate_voxels(params) ==
    IF params.chunk = 1 /\ params.state = NodeStateRoot
    THEN Dense([i \in 1 .. Pow(params.dimension + 2, 3) |->
                    IF i % 3 = 0 THEN "Void" ELSE "Dirt"])
    ELSE Solid("Dirt")

----------------------------------------------------------------------------
(* chunk_loader.rs *)

(* usize::MAX, the value a release build wraps to on 0 - 1; it stands for  *)
(* 2^64 - 1, which is beyond the integers of the model checker             *)
USizeMax == 2147483647

(* usize += 1 and usize -= 1 without overflow checks *)
usize_inc(x) == IF x = USizeMax THEN 0 ELSE x + 1
usize_dec(x) == IF x = 0 THEN USizeMax ELSE x - 1

ChunkDesc(node, params) == [node |-> node, params |-> params]
LoadedChunk(node, chunk, voxels) == [node |-> node, chunk |-> chunk, voxels |-> voxels]

(* ChunkLoader::new: both channels are bounded by capacity; tasks are the   *)
(* generation tasks the dispatching task has spawned                        *)
ChunkLoaderNew(capacity) ==
    [send |-> <<>>, tasks |-> <<>>, recv |-> <<>>, capacity |-> capacity, fill |-> 0]

(* mpsc::Sender::try_send fails when the bounded channel is full *)
try_send_is_err(queue, capacity) == Len(queue) >= capacity

(* load without its test of the fill counter *)
load_unguarded(ld, node, params) ==
    IF try_send_is_err(ld.send, ld.capacity)
    THEN [loader |-> ld, ret |-> FALSE]
    ELSE [loader |-> [ld EXCEPT !.fill = usize_inc(ld.fill),
                                !.send = Append(ld.send, ChunkDesc(node, params))],
          ret |-> TRUE]

(* ChunkLoader::load: the loader after the call and the value returned *)
load(ld, node, params) ==
    IF ld.fill = ld.capacity THEN [loader |-> ld, ret |-> FALSE]
    ELSE IF try_send_is_err(ld.send, ld.capacity)
         THEN [loader |-> ld, ret |-> FALSE]
         ELSE [loader |-> [ld EXCEPT !.fill = usize_inc(ld.fill),
                                     !.send = Append(ld.send, ChunkDesc(node, params))],
               ret |-> TRUE]

(* load_chunks marking the chunk Generating before it knows the outcome of load *)
load_chunk_optimistic(st, dimension, node, chunk) ==
    IF st.panicked THEN st
    ELSE IF ~IsSome(graph_get(st.graph, node)) THEN [st EXCEPT !.panicked = TRUE]
    ELSE IF Unwrap(graph_get(st.graph, node)).chunks[chunk].tag # "Fresh" THEN st
    ELSE LET params == chunk_params_new(dimension, st.graph, node, chunk)
         IN  IF ~IsSome(params) THEN st
             ELSE LET r == load(st.loader, node, Unwrap(params))
                  IN  [loader |-> r.loader,
                       graph |-> set_chunk(st.graph, ChunkId(node, chunk), Generating),
                       loads |-> Append(st.loads, r.ret),
                       panicked |-> FALSE]

(* load_chunks submitting every chunk that is not being generated, not only the Fresh ones *)
load_chunk_not_generating(st, dimension, node, chunk) ==
    IF st.panicked THEN st
    ELSE IF ~IsSome(graph_get(st.graph, node)) THEN [st EXCEPT !.panicked = TRUE]
    ELSE IF Unwrap(graph_get(st.graph, node)).chunks[chunk].tag = "Generating" THEN st
    ELSE LET params == chunk_params_new(dimension, st.graph, node, chunk)
         IN  IF ~IsSome(params) THEN st
             ELSE LET r == load(st.loader, node, Unwrap(params))
                  IN  [loader |-> r.loader,
                       graph |-> IF r.ret
                                 THEN set_chunk(st.graph, ChunkId(node, chunk), Generating)
                                 ELSE st.graph,
                       loads |-> Append(st.loads, r.ret),
                       panicked |-> FALSE]

(* the body of the two loops of load_chunks for one chunk; st holds the     *)
(* loader, the graph, the results of the calls of load so far and whether   *)
(* the expect() failed                                                      *)
load_chunk(st, dimension, node, chunk) ==
    IF st.panicked THEN st
    ELSE IF ~IsSome(graph_get(st.graph, node)) THEN [st EXCEPT !.panicked = TRUE]
    ELSE IF Unwrap(graph_get(st.graph, node)).chunks[chunk].tag # "Fresh" THEN st
    ELSE LET params == chunk_params_new(dimension, st.graph, node, chunk)
         IN  IF ~IsSome(params) THEN st
             ELSE LET r == load(st.loader, node, Unwrap(params))
                  IN  [loader |-> r.loader,
                       graph |-> IF r.ret
                                 THEN set_chunk(st.graph, ChunkId(node, chunk), Generating)
                                 ELSE st.graph,
                       loads |-> Append(st.loads, r.ret),
                       panicked |-> FALSE]

RECURSIVE load_chunks_from(_, _, _, _, _)
load_chunks_from(st, dimension, nodes, i, v) ==
    IF i > Len(nodes) THEN st
    ELSE IF v \notin Vertices THEN load_chunks_from(st, dimension, nodes, i + 1, 0)
    ELSE load_chunks_from(load_chunk(st, dimension, nodes[i], v), dimension, nodes, i, v + 1)

(* ChunkLoader::load_chunks *)
load_chunks(ld, g, dimension, nodes) ==
    load_chunks_from([loader |-> ld, graph |-> g, loads |-> <<>>, panicked |-> FALSE],
                     dimension, nodes, 1, 0)

(* drive committing a result without freeing its capacity *)
drive_one_keeps_fill(st, overflow_checks) ==
    LET chunk == Head(st.loader.recv)
        ld == [st.loader EXCEPT !.recv = Tail(st.loader.recv)]
    IN  IF ~IsSome(graph_get(st.graph, chunk.node))
        THEN [loader |-> ld, graph |-> st.graph, panicked |-> TRUE]
        ELSE [loader |-> ld,
              graph |-> set_chunk(st.graph, ChunkId(chunk.node, chunk.chunk),
                                  Populated(chunk.voxels, FALSE, None, None)),
              panicked |-> FALSE]

(* drive committing a result by building the node anew around the chunk *)
drive_one_rebuilds_node(st, overflow_checks) ==
    LET chunk == Head(st.loader.recv)
        ld == [st.loader EXCEPT !.recv = Tail(st.loader.recv),
                                !.fill = usize_dec(st.loader.fill)]
    IN  IF st.loader.fill = 0 /\ overflow_checks
        THEN [st EXCEPT !.panicked = TRUE]
        ELSE IF ~IsSome(graph_get(st.graph, chunk.node))
        THEN [loader |-> ld, graph |-> st.graph, panicked |-> TRUE]
        ELSE [loader |-> ld,
              graph |-> [st.graph EXCEPT !.value[chunk.node] =
                            Some(Node(NodeStateRoot,
                                      [Unwrap(@).chunks EXCEPT ![chunk.chunk] =
                                          Populated(chunk.voxels, FALSE, None, None)]))],
              panicked |-> FALSE]

(* one iteration of the loop of drive, for the result at the head of recv;  *)
(* the Populated literal of drive names surface and voxels only: the chunk  *)
(* comes out unmodified and without an old surface                          *)
drive_one(st, overflow_checks) ==
    LET chunk == Head(st.loader.recv)
        fill == usize_dec(st.loader.fill)
        ld == [st.loader EXCEPT !.recv = Tail(st.loader.recv), !.fill = fill]
    IN  IF st.loader.fill = 0 /\ overflow_checks
        THEN [st EXCEPT !.panicked = TRUE]
        ELSE IF ~IsSome(graph_get(st.graph, chunk.node))
        THEN [loader |-> ld, graph |-> st.graph, panicked |-> TRUE]
        ELSE [loader |-> ld,
              graph |-> set_chunk(st.graph, ChunkId(chunk.node, chunk.chunk),
                                  Populated(chunk.voxels, FALSE, None, None)),
              panicked |-> FALSE]

RECURSIVE drive_from(_, _)
drive_from(st, overflow_checks) ==
    IF st.panicked \/ st.loader.recv = <<>> THEN st
    ELSE drive_from(drive_one(st, overflow_checks), overflow_checks)

(* ChunkLoader::drive *)
drive(ld, g, overflow_checks) ==
    drive_from([loader |-> ld, graph |-> g, panicked |-> FALSE], overflow_checks)

(* the dispatching task of ChunkLoader::new: receives a ChunkDesc and spawns its task *)
dispatch(ld) ==
    [ld EXCEPT !.send = Tail(ld.send), !.tasks = Append(ld.tasks, Head(ld.send))]

RemoveAt(seq, i) == SubSeq(seq, 1, i - 1) \o SubSeq(seq, i + 1, Len(seq))

(* a spawned task that ends without sending what it generated *)
task_send_drops_result(ld, i) ==
    [ld EXCEPT !.tasks = RemoveAt(ld.tasks, i)]

(* a spawned task: generates the voxels and sends them on the output channel *)
task_send(ld, i) ==
    LET chunk_desc == ld.tasks[i]
    IN  [ld EXCEPT !.tasks = RemoveAt(ld.tasks, i),
                   !.recv = Append(ld.recv,
                                   LoadedChunk(chunk_desc.node, chunk_desc.params.chunk,
                                               generate_voxels(chunk_desc.params)))]

----------------------------------------------------------------------------
(* graph_collision.rs *)

(* The geometry of a cast, from the specification. Distances along the ray  *)
(* (tanh_distance) are the integers 1 .. MaxTanhDistance, and Never is      *)
(* beyond every cast. A scene gives, for the ray of the cast:               *)
(*   hit[chunk]   where the swept sphere first touches a surface in chunk   *)
(*   near[side]   from where on an endpoint of the segment lies within the  *)
(*                lower boundary towards that side of the cell              *)
(*   reach[side]  from where on the bounding-sphere test no longer excludes *)
(*                the cell across that side                                 *)
(*   over         from where on an endpoint lies beyond the upper boundary, *)
(*                towards the chunk of the adjacent vertex                  *)
Never == MaxTanhDistance + 1

TanhDistances == 1 .. MaxTanhDistance

(* chunk_collision::chunk_sphere_cast: the closest hit in the chunk within  *)
(* the distance, if its voxels have a surface at all                        *)
chunk_sphere_cast(voxel_data, scene, chunk, tanh_distance) ==
    IF /\ \E i \in 0 .. (Pow(Dimension + 2, 3) - 1) :
                ~IsMarginIndex(i, Dimension + 2) /\ voxel_get(voxel_data, i) # "Void"
       /\ scene.hit[chunk] <= tanh_distance
    THEN Some(scene.hit[chunk])
    ELSE None

GraphCastHit(tanh_distance, chunk) == [tanh_distance |-> tanh_distance, chunk |-> chunk]

(* the loop over the axes passing over a side with no cell behind it *)
RECURSIVE enqueue_neighbors_skips_missing(_, _, _, _, _, _)
enqueue_neighbors_skips_missing(g, scene, chunk, current_tanh_distance, st, axis) ==
    IF axis > 2 THEN st
    ELSE
    LET side == canonical_sides(chunk.vertex)[axis + 1]
        lower == scene.near[chunk.vertex][side] <= current_tanh_distance
        excluded == current_tanh_distance < scene.reach[side]
        nb == neighbor(g, chunk.node, side)
        next_lower == ChunkId(Unwrap(nb), chunk.vertex)
        st1 == IF lower /\ ~(next_lower \in st.visited_chunks)
               THEN [st EXCEPT !.visited_chunks = @ \cup {next_lower},
                               !.chunk_queue = Append(@, next_lower)]
               ELSE st
        upper == scene.over <= current_tanh_distance
        next_upper == ChunkId(chunk.node, adjacent_vertices(chunk.vertex)[axis + 1])
        st2 == IF upper /\ ~(next_upper \in st1.visited_chunks)
               THEN [st1 EXCEPT !.visited_chunks = @ \cup {next_upper},
                                !.chunk_queue = Append(@, next_upper)]
               ELSE st1
    IN  IF lower /\ excluded
        THEN enqueue_neighbors_skips_missing(g, scene, chunk, current_tanh_distance, st, axis + 1)
        ELSE IF lower /\ ~IsSome(nb)
        THEN enqueue_neighbors_skips_missing(g, scene, chunk, current_tanh_distance, st, axis + 1)
        ELSE enqueue_neighbors_skips_missing(g, scene, chunk, current_tanh_distance, st2, axis + 1)

(* the body of `for axis in 0..3` for the axes from axis on: st holds       *)
(* visited_chunks and chunk_queue, and err is set by the early return       *)
RECURSIVE enqueue_neighbors(_, _, _, _, _, _)
enqueue_neighbors(g, scene, chunk, current_tanh_distance, st, axis) ==
    IF axis > 2 THEN st
    ELSE
    LET side == canonical_sides(chunk.vertex)[axis + 1]
        lower == scene.near[chunk.vertex][side] <= current_tanh_distance
        excluded == current_tanh_distance < scene.reach[side]
        nb == neighbor(g, chunk.node, side)
        next_lower == ChunkId(Unwrap(nb), chunk.vertex)
        st1 == IF lower /\ ~(next_lower \in st.visited_chunks)
               THEN [st EXCEPT !.visited_chunks = @ \cup {next_lower},
                               !.chunk_queue = Append(@, next_lower)]
               ELSE st
        upper == scene.over <= current_tanh_distance
        next_upper == ChunkId(chunk.node, adjacent_vertices(chunk.vertex)[axis + 1])
        st2 == IF upper /\ ~(next_upper \in st1.visited_chunks)
               THEN [st1 EXCEPT !.visited_chunks = @ \cup {next_upper},
                                !.chunk_queue = Append(@, next_upper)]
               ELSE st1
    IN  IF lower /\ excluded
        THEN enqueue_neighbors(g, scene, chunk, current_tanh_distance, st, axis + 1)
        ELSE IF lower /\ ~IsSome(nb)
        THEN [st EXCEPT !.err = TRUE]
        ELSE enqueue_neighbors(g, scene, chunk, current_tanh_distance, st2, axis + 1)

(* the voxel data test that treats a chunk still to be generated as empty   *)
populated_voxels_or_empty(g, chunk) ==
    LET c == get_chunk(g, chunk)
    IN  IF ~IsSome(c) THEN [status |-> "Panic", voxels |-> Solid("Void")]
        ELSE IF Unwrap(c).tag # "Populated" THEN [status |-> "Populated", voxels |-> Solid("Void")]
        ELSE [status |-> "Populated", voxels |-> Unwrap(c).voxels]

(* the voxel data of a chunk taken from the queue: graph[chunk] panics on   *)
(* a node without a value, and a chunk that is not Populated ends the call  *)
populated_voxels(g, chunk) ==
    LET c == get_chunk(g, chunk)
    IN  IF ~IsSome(c) THEN [status |-> "Panic", voxels |-> Solid("Void")]
        ELSE IF Unwrap(c).tag # "Populated" THEN [status |-> "OutOfBounds", voxels |-> Solid("Void")]
        ELSE [status |-> "Populated", voxels |-> Unwrap(c).voxels]

(* the search loop keeping only the hit of the chunk checked last *)
RECURSIVE sphere_cast_loop_forgets_hit(_, _, _, _)
sphere_cast_loop_forgets_hit(g, scene, tanh_distance, st) ==
    IF st.chunk_queue = <<>> THEN [result |-> "Ok", hit |-> st.hit, visits |-> st.visits]
    ELSE
    LET chunk == Head(st.chunk_queue)
        data == populated_voxels(g, chunk)
        current_tanh_distance ==
            IF IsSome(st.hit) THEN Unwrap(st.hit).tanh_distance ELSE tanh_distance
        visit == [chunk |-> chunk, current |-> current_tanh_distance, checked |-> TRUE]
    IN  IF data.status # "Populated"
        THEN [result |-> data.status, hit |-> None,
              visits |-> Append(st.visits, [visit EXCEPT !.checked = FALSE])]
        ELSE
        LET found == chunk_sphere_cast(data.voxels, scene, chunk, current_tanh_distance)
            hit == IF IsSome(found) THEN Some(GraphCastHit(Unwrap(found), chunk)) ELSE None
            st1 == enqueue_neighbors(g, scene, chunk, current_tanh_distance,
                                     [st EXCEPT !.chunk_queue = Tail(@), !.hit = hit,
                                                !.visits = Append(@, visit)],
                                     0)
        IN  IF st1.err
            THEN [result |-> "OutOfBounds", hit |-> None, visits |-> st1.visits]
            ELSE sphere_cast_loop_forgets_hit(g, scene, tanh_distance, st1)

(* the breadth-first search loop; visits records, for every chunk taken     *)
(* from the queue, the distance in force and whether it was checked with    *)
(* chunk_sphere_cast                                                        *)
RECURSIVE sphere_cast_loop(_, _, _, _)
sphere_cast_loop(g, scene, tanh_distance, st) ==
    IF st.chunk_queue = <<>> THEN [result |-> "Ok", hit |-> st.hit, visits |-> st.visits]
    ELSE
    LET chunk == Head(st.chunk_queue)
        data == populated_voxels(g, chunk)
        current_tanh_distance ==
            IF IsSome(st.hit) THEN Unwrap(st.hit).tanh_distance ELSE tanh_distance
        visit == [chunk |-> chunk, current |-> current_tanh_distance, checked |-> TRUE]
    IN  IF data.status # "Populated"
        THEN [result |-> data.status, hit |-> None,
              visits |-> Append(st.visits, [visit EXCEPT !.checked = FALSE])]
        ELSE
        LET found == chunk_sphere_cast(data.voxels, scene, chunk, current_tanh_distance)
            hit == IF IsSome(found) THEN Some(GraphCastHit(Unwrap(found), chunk)) ELSE st.hit
            st1 == enqueue_neighbors(g, scene, chunk, current_tanh_distance,
                                     [st EXCEPT !.chunk_queue = Tail(@), !.hit = hit,
                                                !.visits = Append(@, visit)],
                                     0)
        IN  IF st1.err
            THEN [result |-> "OutOfBounds", hit |-> None, visits |-> st1.visits]
            ELSE sphere_cast_loop(g, scene, tanh_distance, st1)

(* sphere_cast from position.node: the result ("Panic" when graph[chunk]    *)
(* unwraps a node without a value), the hit, and the chunks visited         *)
sphere_cast(g, position_node, scene, tanh_distance) ==
    sphere_cast_loop(g, scene, tanh_distance,
                     [chunk_queue |-> <<ChunkId(position_node, 0)>>,
                      visited_chunks |-> {},
                      hit |-> None,
                      visits |-> <<>>,
                      err |-> FALSE])

----------------------------------------------------------------------------
(* character_controller.rs: vectors *)

(* A vector is kept in a plane spanned by one horizontal direction and the  *)
(* up direction, as a whole part a and a part e in units of half the error  *)
(* margin of the bounds in force, which is far below the unit of a          *)
Vec2(x, y) == <<x, y>>
VAdd(p, q) == <<p[1] + q[1], p[2] + q[2]>>
VScale(p, k) == <<p[1] * k, p[2] * k>>
VDot(p, q) == p[1] * q[1] + p[2] * q[2]

Vector(a) == [a |-> a, e |-> Vec2(0, 0)]
Zeros == Vector(Vec2(0, 0))
Add(v, w) == [a |-> VAdd(v.a, w.a), e |-> VAdd(v.e, w.e)]
Sub(v, w) == [a |-> VAdd(v.a, VScale(w.a, -1)), e |-> VAdd(v.e, VScale(w.e, -1))]
Scale(v, k) == [a |-> VScale(v.a, k), e |-> VScale(v.e, k)]
Halve(v) == [a |-> <<v.a[1] \div 2, v.a[2] \div 2>>, e |-> <<v.e[1] \div 2, v.e[2] \div 2>>]
is_zero(v) == v = Zeros
Sign(x) == IF x > 0 THEN 1 ELSE IF x < 0 THEN -1 ELSE 0

(* the up direction relative to the position, and the unit normals a        *)
(* surface can have: floor and the two walls                                *)
Up == Vec2(0, 1)
Normals == { Vec2(0, 1), Vec2(1, 0), Vec2(-1, 0) }

(* math::project_to_plane: move subject along project_direction until its  *)
(* component along normal is distance (given in units of e)                 *)
project_to_plane(subject, normal, project_direction, distance) ==
    LET d == VDot(project_direction, normal)
    IN  [a |-> VAdd(subject.a, VScale(project_direction, (0 - VDot(subject.a, normal)) \div d)),
         e |-> VAdd(subject.e, VScale(project_direction, (distance - VDot(subject.e, normal)) \div d))]

----------------------------------------------------------------------------
(* character_controller.rs: mod bound_vector *)

(* VectorBounds::new; the error margin, in units of e, is zero exactly for  *)
(* the zero vector                                                          *)
VectorBounds_new(initial_vector) ==
    [bounds |-> <<>>, error_margin |-> IF is_zero(initial_vector) THEN 0 ELSE 2]

new_push(normal, push_direction) ==
    [normal |-> normal, push_direction |-> push_direction, target_distance_factor |-> 1]

new_pull(normal, push_direction) ==
    [normal |-> VScale(normal, -1), push_direction |-> push_direction,
     target_distance_factor |-> -1]

(* twice VectorBound::checked_distance_factor *)
checked_distance_factor2(bound) == 2 * bound.target_distance_factor - 1

get_constrained_with_bound(self, bound) ==
    LET ortho_bound_push_direction ==
            project_to_plane(Vector(self.push_direction), bound.normal, bound.push_direction, 0).a
    IN  IF ortho_bound_push_direction = Vec2(0, 0) THEN None
        ELSE Some([normal |-> self.normal, push_direction |-> ortho_bound_push_direction,
                   target_distance_factor |-> self.target_distance_factor])

constrain_vector(self, subject, error_margin) ==
    project_to_plane(subject, self.normal, self.push_direction,
                     error_margin * self.target_distance_factor)

check_vector(self, subject, error_margin) ==
    \/ is_zero(subject)
    \/ VDot(subject.a, self.normal) > 0
    \/ /\ VDot(subject.a, self.normal) = 0
       /\ 2 * VDot(subject.e, self.normal) >= error_margin * checked_distance_factor2(self)

(* every bound of the sequence passes check_vector *)
all_check_vector(bounds_iter, subject, error_margin) ==
    \A i \in 1 .. Len(bounds_iter) : check_vector(bounds_iter[i], subject, error_margin)

(* the loop of apply_bound taking the first combined bound there is *)
RECURSIVE apply_bound_from_takes_first(_, _, _, _, _, _)
apply_bound_from_takes_first(bounds_iter, error_margin, new_bound, vector, tagalong, i) ==
    IF i > Len(bounds_iter)
    THEN [vector |-> Zeros, tagalong |-> IF IsSome(tagalong) THEN Some(Zeros) ELSE None]
    ELSE IF check_vector(bounds_iter[i], vector, error_margin)
    THEN apply_bound_from_takes_first(bounds_iter, error_margin, new_bound, vector, tagalong, i + 1)
    ELSE
    LET ortho_bound == get_constrained_with_bound(bounds_iter[i], new_bound)
        candidate == constrain_vector(Unwrap(ortho_bound), vector, error_margin)
    IN  IF ~IsSome(ortho_bound)
        THEN apply_bound_from_takes_first(bounds_iter, error_margin, new_bound, vector, tagalong, i + 1)
        ELSE [vector |-> candidate,
              tagalong |-> IF IsSome(tagalong)
                           THEN Some(constrain_vector(Unwrap(ortho_bound), Unwrap(tagalong), 0))
                           ELSE None]

(* the loop of apply_bound over the violated bounds, from the i-th on *)
RECURSIVE apply_bound_from(_, _, _, _, _, _)
apply_bound_from(bounds_iter, error_margin, new_bound, vector, tagalong, i) ==
    IF i > Len(bounds_iter)
    THEN [vector |-> Zeros, tagalong |-> IF IsSome(tagalong) THEN Some(Zeros) ELSE None]
    ELSE IF check_vector(bounds_iter[i], vector, error_margin)
    THEN apply_bound_from(bounds_iter, error_margin, new_bound, vector, tagalong, i + 1)
    ELSE
    LET ortho_bound == get_constrained_with_bound(bounds_iter[i], new_bound)
        candidate == constrain_vector(Unwrap(ortho_bound), vector, error_margin)
    IN  IF ~IsSome(ortho_bound)
        THEN apply_bound_from(bounds_iter, error_margin, new_bound, vector, tagalong, i + 1)
        ELSE IF all_check_vector(bounds_iter, candidate, error_margin)
        THEN [vector |-> candidate,
              tagalong |-> IF IsSome(tagalong)
                           THEN Some(constrain_vector(Unwrap(ortho_bound), Unwrap(tagalong), 0))
                           ELSE None]
        ELSE apply_bound_from(bounds_iter, error_margin, new_bound, vector, tagalong, i + 1)

(* VectorBounds::apply_bound: the vector and the tagalong after the call *)
apply_bound(self, new_bound, temporary_bounds, vector, tagalong) ==
    LET bounds_iter == self.bounds \o temporary_bounds
        violated == ~check_vector(new_bound, vector, self.error_margin)
        vector1 == IF violated THEN constrain_vector(new_bound, vector, self.error_margin)
                   ELSE vector
        tagalong1 == IF violated /\ IsSome(tagalong)
                     THEN Some(constrain_vector(new_bound, Unwrap(tagalong), 0))
                     ELSE tagalong
    IN  IF all_check_vector(bounds_iter, vector1, self.error_margin)
        THEN [vector |-> vector1, tagalong |-> tagalong1]
        ELSE apply_bound_from(bounds_iter, self.error_margin, new_bound, vector1, tagalong1, 1)

(* VectorBounds::add_and_apply_bound *)
add_and_apply_bound(self, new_bound, temporary_bounds, vector, tagalong) ==
    LET r == apply_bound(self, new_bound, temporary_bounds, vector, tagalong)
    IN  [bounds |-> [self EXCEPT !.bounds = Append(@, new_bound)],
         vector |-> r.vector, tagalong |-> r.tagalong]

----------------------------------------------------------------------------
(* character_controller.rs: mod collision *)

(* position.local: the transitions between cells it has been rebased by    *)
(* and the translations multiplied onto it, in order                        *)
LocalIdentity == [frame |-> <<>>, moves |-> <<>>]

(* position.local *= math::translate_along(v), the identity for v = 0 *)
translate_along(local, v) ==
    IF is_zero(v) THEN local ELSE [local EXCEPT !.moves = Append(@, v)]

(* CollisionCheckingResult::stationary *)
stationary(called) ==
    [displacement_vector |-> Zeros, displacement_transform |-> Zeros, collision |-> None,
     called |-> called]

(* check_collision taking a failed cast for a free path *)
check_collision_moves_on_error(cast, relative_displacement) ==
    LET whole == Scale(relative_displacement.per_tick, relative_displacement.ticks)
        part == Scale(relative_displacement.per_tick, cast.at)
    IN  IF is_zero(whole) THEN stationary(FALSE)
        ELSE IF cast.kind = "Err"
        THEN [displacement_vector |-> whole, displacement_transform |-> whole,
              collision |-> None, called |-> TRUE]
        ELSE IF cast.kind = "Hit" /\ cast.at <= relative_displacement.ticks
        THEN [displacement_vector |-> part, displacement_transform |-> part,
              collision |-> Some([normal |-> cast.normal]), called |-> TRUE]
        ELSE [displacement_vector |-> whole, displacement_transform |-> whole,
              collision |-> None, called |-> TRUE]

(* check_collision casting however short the displacement is *)
check_collision_casts_always(cast, relative_displacement) ==
    LET whole == Scale(relative_displacement.per_tick, relative_displacement.ticks)
        part == Scale(relative_displacement.per_tick, cast.at)
    IN  IF cast.kind = "Err" THEN stationary(TRUE)
        ELSE IF cast.kind = "Hit" /\ cast.at <= relative_displacement.ticks
        THEN [displacement_vector |-> part, displacement_transform |-> part,
              collision |-> Some([normal |-> cast.normal]), called |-> TRUE]
        ELSE [displacement_vector |-> whole, displacement_transform |-> whole,
              collision |-> None, called |-> TRUE]

(* check_collision. The displacement is given as a velocity and a duration  *)
(* so that the part of it covered before a hit stays exact; cast is what    *)
(* sphere_cast answers if it is called, called whether it was               *)
check_collision(cast, relative_displacement) ==
    LET whole == Scale(relative_displacement.per_tick, relative_displacement.ticks)
        part == Scale(relative_displacement.per_tick, cast.at)
    IN  IF is_zero(whole) THEN stationary(FALSE)
        ELSE IF cast.kind = "Err" THEN stationary(TRUE)
        ELSE IF cast.kind = "Hit" /\ cast.at <= relative_displacement.ticks
        THEN [displacement_vector |-> part, displacement_transform |-> part,
              collision |-> Some([normal |-> cast.normal]), called |-> TRUE]
        ELSE [displacement_vector |-> whole, displacement_transform |-> whole,
              collision |-> None, called |-> TRUE]

(* the answer of the sphere_cast call made after calls earlier ones *)
NextCast(casts, calls) == casts[IF calls < Len(casts) THEN calls + 1 ELSE Len(casts)]

----------------------------------------------------------------------------
(* character_controller.rs: the controller *)

MAX_COLLISION_ITERATIONS == 6

(* is_floor: the threshold 1 / sqrt(max_slope^2 + 1) lies strictly between  *)
(* 0 and 1                                                                  *)
is_floor(up, normal) == VDot(normal, up) > 0

VelocityInfo(bounds, average_velocity, final_velocity) ==
    [bounds |-> bounds, average_velocity |-> average_velocity, final_velocity |-> final_velocity]

(* one add_and_apply_bound of handle_collision on a VelocityInfo *)
apply_to_velocity_info(velocity_info, bound, stay_on_floor_bounds) ==
    LET r == add_and_apply_bound(velocity_info.bounds, bound, stay_on_floor_bounds,
                                 velocity_info.average_velocity,
                                 Some(velocity_info.final_velocity))
    IN  VelocityInfo(r.bounds, r.vector, Unwrap(r.tagalong))

(* for bound in old_velocity_info.bounds.bounds(), from the i-th on *)
RECURSIVE replay_bounds(_, _, _, _)
replay_bounds(velocity_info, old_bounds, stay_on_floor_bounds, i) ==
    IF i > Len(old_bounds) THEN velocity_info
    ELSE The({ replay_bounds(next, old_bounds, stay_on_floor_bounds, i + 1) :
                 next \in {apply_to_velocity_info(velocity_info, old_bounds[i],
                                                  stay_on_floor_bounds)} })

(* handle_collision adding the bound of every collision at the end *)
handle_collision_appends_floor(collision, up, initial_velocity_info, velocity_info, ground_normal, ground_collision_handled) ==
    IF is_floor(up, collision.normal)
    THEN LET stay_on_floor_bounds == <<new_pull(collision.normal, up)>>
         IN  [velocity_info |->
                 apply_to_velocity_info(velocity_info, new_push(collision.normal, up),
                                        stay_on_floor_bounds),
              ground_normal |-> Some(collision.normal),
              ground_collision_handled |-> TRUE]
    ELSE LET stay_on_floor_bounds ==
                 IF IsSome(ground_normal) THEN <<new_pull(Unwrap(ground_normal), up)>>
                 ELSE <<>>
         IN  [velocity_info |->
                 apply_to_velocity_info(velocity_info,
                                        new_push(collision.normal, collision.normal),
                                        stay_on_floor_bounds),
              ground_normal |-> ground_normal,
              ground_collision_handled |-> ground_collision_handled]

handle_collision(collision, up, initial_velocity_info, velocity_info, ground_normal, ground_collision_handled) ==
    IF is_floor(up, collision.normal)
    THEN LET stay_on_floor_bounds == <<new_pull(collision.normal, up)>>
         IN  [velocity_info |->
                 IF ~ground_collision_handled
                 THEN replay_bounds(
                          apply_to_velocity_info(initial_velocity_info,
                                                 new_push(collision.normal, up),
                                                 stay_on_floor_bounds),
                          velocity_info.bounds.bounds, stay_on_floor_bounds, 1)
                 ELSE apply_to_velocity_info(velocity_info, new_push(collision.normal, up),
                                             stay_on_floor_bounds),
              ground_normal |-> Some(collision.normal),
              ground_collision_handled |-> TRUE]
    ELSE LET stay_on_floor_bounds ==
                 IF IsSome(ground_normal) THEN <<new_pull(Unwrap(ground_normal), up)>>
                 ELSE <<>>
         IN  [velocity_info |->
                 apply_to_velocity_info(velocity_info,
                                        new_push(collision.normal, collision.normal),
                                        stay_on_floor_bounds),
              ground_normal |-> ground_normal,
              ground_collision_handled |-> ground_collision_handled]

(* the loop of apply_velocity; st carries the loop's variables, the number  *)
(* of sphere_cast calls made so far and the number of iterations begun      *)
RECURSIVE apply_velocity_loop(_, _, _, _)

(* one iteration, given the result of its check_collision *)
apply_velocity_iteration(casts, up, initial_velocity_info, st, collision_result) ==
    LET st1 == [st EXCEPT !.iterations = @ + 1,
                          !.calls = IF collision_result.called THEN @ + 1 ELSE @,
                          !.errors = IF collision_result.called
                                        /\ NextCast(casts, st.calls).kind = "Err"
                                     THEN @ + 1 ELSE @,
                          !.local = translate_along(@, collision_result.displacement_transform)]
    IN  IF IsSome(collision_result.collision)
        THEN The({ apply_velocity_loop(casts, up, initial_velocity_info,
                       [st1 EXCEPT !.remaining_dt_seconds = @ - NextCast(casts, st.calls).at,
                                   !.velocity_info = h.velocity_info,
                                   !.ground_normal = h.ground_normal,
                                   !.ground_collision_handled = h.ground_collision_handled,
                                   !.collisions = @ + 1]) :
                     h \in {handle_collision(Unwrap(collision_result.collision), up,
                                             initial_velocity_info, st.velocity_info,
                                             st.ground_normal, st.ground_collision_handled)} })
        ELSE [st1 EXCEPT !.all_collisions_resolved = TRUE]

(* the loop of apply_velocity running one iteration past the limit *)
apply_velocity_loop_one_more(casts, up, initial_velocity_info, st) ==
    The({ IF s.iterations > MAX_COLLISION_ITERATIONS THEN s
          ELSE The({ apply_velocity_iteration(casts, up, initial_velocity_info, s,
                                              collision_result) :
                       collision_result \in
                           {check_collision(NextCast(casts, s.calls),
                                            [per_tick |-> s.velocity_info.average_velocity,
                                             ticks |-> s.remaining_dt_seconds])} }) :
            s \in {st} })

apply_velocity_loop(casts, up, initial_velocity_info, st) ==
    The({ IF s.iterations >= MAX_COLLISION_ITERATIONS THEN s
          ELSE The({ apply_velocity_iteration(casts, up, initial_velocity_info, s,
                                              collision_result) :
                       collision_result \in
                           {check_collision(NextCast(casts, s.calls),
                                            [per_tick |-> s.velocity_info.average_velocity,
                                             ticks |-> s.remaining_dt_seconds])} }) :
            s \in {st} })

(* apply_velocity: position.local, velocity and ground_normal after the     *)
(* call, with the counts the claims are stated with                         *)
apply_velocity(casts, calls, up, average_velocity, dt_seconds, local, velocity, ground_normal) ==
    The({ [local |-> st.local, velocity |-> st.velocity_info.final_velocity,
           ground_normal |-> st.ground_normal, calls |-> st.calls,
           iterations |-> st.iterations, collisions |-> st.collisions, errors |-> st.errors,
           average_velocity |-> st.velocity_info.average_velocity,
           warned |-> ~st.all_collisions_resolved] :
            st \in { apply_velocity_loop(casts, up, initial_velocity_info,
                         [remaining_dt_seconds |-> dt_seconds,
                          velocity_info |-> initial_velocity_info,
                          ground_collision_handled |-> FALSE,
                          all_collisions_resolved |-> FALSE,
                          ground_normal |-> ground_normal,
                          local |-> local, calls |-> calls,
                          iterations |-> 0, collisions |-> 0, errors |-> 0]) :
                      initial_velocity_info \in
                          {VelocityInfo(VectorBounds_new(average_velocity), average_velocity,
                                        velocity)} } })

(* SimConfig, as whole numbers of the unit of a; speeds and accelerations   *)
(* are even so that the average of two velocities is exact                  *)
NoClipMovementSpeed == 2
MaxGroundSpeed == 2
GroundAcceleration == 2
AirAcceleration == 2
GravityAcceleration == 2
JumpSpeed == 4
GroundDistanceTolerance == 1
SpeedCap == 16
AirResistance == 0

(* f32::exp of a negated whole number, to the nearest whole number *)
exp_neg(x) == IF x = 0 THEN 1 ELSE 0

(* sanitize_motion_input: an input longer than 1 is cut to length 1 *)
sanitize_motion_input(movement) ==
    IF VDot(movement, movement) <= 1 THEN Vector(movement)
    ELSE Vector(Vec2(Sign(movement[1]), Sign(movement[2])))

(* Vector3::cap_magnitude, for the speeds the model reaches *)
cap_magnitude(v, cap) ==
    IF VDot(v.a, v.a) <= cap * cap THEN v
    ELSE Vector(Vec2(Sign(v.a[1]) * cap, Sign(v.a[2]) * cap))

(* get_relative_up: None where graph.get(position.node) is None and the     *)
(* unwrap panics                                                            *)
get_relative_up(g, position) ==
    IF IsSome(graph_get(g, position.node)) THEN Some(Up) ELSE None

(* one iteration of get_ground_normal, given the result of its             *)
(* check_collision                                                          *)
RECURSIVE get_ground_normal_loop(_, _, _, _, _, _)
get_ground_normal_iteration(casts, calls, up, allowed_displacement, bounds, i, collision_result) ==
    LET calls1 == IF collision_result.called THEN calls + 1 ELSE calls
        normal == Unwrap(collision_result.collision).normal
    IN  IF ~IsSome(collision_result.collision) THEN [ground_normal |-> None, calls |-> calls1]
        ELSE IF is_floor(up, normal) THEN [ground_normal |-> Some(normal), calls |-> calls1]
        ELSE The({ get_ground_normal_loop(casts, calls1, up, r.vector, r.bounds, i + 1) :
                     r \in {add_and_apply_bound(bounds, new_push(normal, normal), <<>>,
                                                allowed_displacement, None)} })

(* the loop of get_ground_normal, from the i-th iteration on *)
get_ground_normal_loop(casts, calls, up, allowed_displacement, bounds, i) ==
    IF i >= MAX_COLLISION_ITERATIONS THEN [ground_normal |-> None, calls |-> calls]
    ELSE The({ get_ground_normal_iteration(casts, calls, up, allowed_displacement, bounds, i,
                                           collision_result) :
                 collision_result \in
                     {check_collision(NextCast(casts, calls),
                                      [per_tick |-> allowed_displacement, ticks |-> 1])} })

get_ground_normal(casts, calls, up, allowed_distance) ==
    LET allowed_displacement == Scale(Vector(up), 0 - allowed_distance)
    IN  get_ground_normal_loop(casts, calls, up, allowed_displacement,
                               VectorBounds_new(allowed_displacement), 0)

apply_ground_controls(ground_acceleration, max_ground_speed, dt_seconds, movement, up, ground_normal, velocity) ==
    LET target_ground_velocity ==
            IF is_zero(movement) THEN Zeros
            ELSE Scale(project_to_plane(movement, ground_normal, up, 0), max_ground_speed)
        ground_velocity == project_to_plane(velocity, ground_normal, up, 0)
        current_to_target_velocity == Sub(target_ground_velocity, ground_velocity)
        max_delta_velocity == ground_acceleration * dt_seconds
    IN  IF VDot(current_to_target_velocity.a, current_to_target_velocity.a)
               > max_delta_velocity * max_delta_velocity
        THEN Add(velocity, Vector(Vec2(Sign(current_to_target_velocity.a[1]) * max_delta_velocity,
                                       Sign(current_to_target_velocity.a[2]) * max_delta_velocity)))
        ELSE Add(velocity, current_to_target_velocity)

apply_air_controls(air_acceleration, dt_seconds, movement, velocity) ==
    Add(velocity, Scale(movement, air_acceleration * dt_seconds))

(* the distance a position may lie from the centre of its cell *)
CellReach == 4

RECURSIVE SumAcross(_, _)
SumAcross(moves, i) == IF i > Len(moves) THEN 0 ELSE moves[i].a[1] + SumAcross(moves, i + 1)

(* Graph::normalize_transform: a position beyond the side towards the       *)
(* other cell is rebased into that cell when the cell exists                *)
normalize_transform(g, position) ==
    IF SumAcross(position.local.moves, 1) > CellReach /\ IsSome(neighbor(g, position.node, 1))
    THEN [node |-> Unwrap(neighbor(g, position.node, 1)),
          local |-> [position.local EXCEPT !.frame = Append(@, 1)]]
    ELSE position

(* the branch without no_clip jumping from the ground without leaving it:   *)
(* the ground normal found at the start is kept                             *)
character_step_jump_keeps_ground(casts, position, velocity, input, dt_seconds, movement, up, probe) ==
    LET jumps == input.jump /\ IsSome(probe.ground_normal)
        jump_velocity ==
            IF jumps
            THEN Add(Sub(velocity, Scale(Vector(up), VDot(up, velocity.a))),
                     Scale(Vector(up), JumpSpeed))
            ELSE velocity
        ground_normal == probe.ground_normal
        old_velocity == jump_velocity
        controlled ==
            IF IsSome(ground_normal)
            THEN apply_ground_controls(GroundAcceleration, MaxGroundSpeed, dt_seconds, movement,
                                       up, Unwrap(ground_normal), jump_velocity)
            ELSE Scale(apply_air_controls(AirAcceleration, dt_seconds, movement, jump_velocity),
                       exp_neg(AirResistance * dt_seconds))
        fallen == Sub(controlled, Scale(Vector(up), GravityAcceleration * dt_seconds))
        capped == cap_magnitude(fallen, SpeedCap)
        average_velocity == Halve(Add(capped, old_velocity))
    IN  The({ [local |-> moved.local, velocity |-> moved.velocity,
               on_ground |-> IsSome(moved.ground_normal),
               calls |-> moved.calls, probes |-> probe.calls,
               iterations |-> moved.iterations, collisions |-> moved.collisions,
               errors |-> moved.errors, warned |-> moved.warned] :
                moved \in { apply_velocity(casts, probe.calls, up, average, dt_seconds,
                                           position.local, final, ground_normal) :
                                average \in {average_velocity}, final \in {capped} } })

(* the branch of run_character_step without no_clip, given the up          *)
(* direction and what get_ground_normal found                               *)
character_step_with_collisions(casts, position, velocity, input, dt_seconds, movement, up, probe) ==
    LET jumps == input.jump /\ IsSome(probe.ground_normal)
        jump_velocity ==
            IF jumps
            THEN Add(Sub(velocity, Scale(Vector(up), VDot(up, velocity.a))),
                     Scale(Vector(up), JumpSpeed))
            ELSE velocity
        ground_normal == IF jumps THEN None ELSE probe.ground_normal
        old_velocity == jump_velocity
        controlled ==
            IF IsSome(ground_normal)
            THEN apply_ground_controls(GroundAcceleration, MaxGroundSpeed, dt_seconds, movement,
                                       up, Unwrap(ground_normal), jump_velocity)
            ELSE Scale(apply_air_controls(AirAcceleration, dt_seconds, movement, jump_velocity),
                       exp_neg(AirResistance * dt_seconds))
        fallen == Sub(controlled, Scale(Vector(up), GravityAcceleration * dt_seconds))
        capped == cap_magnitude(fallen, SpeedCap)
        average_velocity == Halve(Add(capped, old_velocity))
    IN  The({ [local |-> moved.local, velocity |-> moved.velocity,
               on_ground |-> IsSome(moved.ground_normal),
               calls |-> moved.calls, probes |-> probe.calls,
               iterations |-> moved.iterations, collisions |-> moved.collisions,
               errors |-> moved.errors, warned |-> moved.warned] :
                moved \in { apply_velocity(casts, probe.calls, up, average, dt_seconds,
                                           position.local, final, ground_normal) :
                                average \in {average_velocity}, final \in {capped} } })

(* run_character_step honouring no_clip only on the ground *)
run_character_step_clips_in_air(casts, g, position, velocity, on_ground, input, dt_seconds) ==
    LET movement == sanitize_motion_input(input.movement)
        no_clip_velocity == Scale(movement, NoClipMovementSpeed)
        no_clip_local == translate_along(position.local, Scale(no_clip_velocity, dt_seconds))
        up == Unwrap(get_relative_up(g, position))
    IN  IF input.no_clip /\ on_ground
        THEN [panicked |-> FALSE,
              position |-> normalize_transform(g, [position EXCEPT !.local = no_clip_local]),
              velocity |-> no_clip_velocity, on_ground |-> on_ground,
              translated |-> no_clip_local, calls |-> 0, probes |-> 0,
              iterations |-> 0, collisions |-> 0, errors |-> 0, warned |-> FALSE]
        ELSE IF ~IsSome(get_relative_up(g, position))
        THEN [panicked |-> TRUE, position |-> position, velocity |-> velocity,
              on_ground |-> on_ground, translated |-> position.local, calls |-> 0, probes |-> 0,
              iterations |-> 0, collisions |-> 0, errors |-> 0, warned |-> FALSE]
        ELSE The({ [panicked |-> FALSE,
                    position |-> normalize_transform(g, [position EXCEPT !.local = r.local]),
                    velocity |-> r.velocity, on_ground |-> r.on_ground,
                    translated |-> r.local, calls |-> r.calls, probes |-> r.probes,
                    iterations |-> r.iterations, collisions |-> r.collisions,
                    errors |-> r.errors, warned |-> r.warned] :
                     r \in { character_step_with_collisions(casts, position, velocity, input,
                                                            dt_seconds, movement, up, probe) :
                               probe \in { IF on_ground
                                           THEN get_ground_normal(casts, 0, up,
                                                                  GroundDistanceTolerance)
                                           ELSE [ground_normal |-> None, calls |-> 0] } } })

(* run_character_step: the position, velocity and on_ground it leaves, the  *)
(* number of sphere_cast calls it made, and position.local as it was before *)
(* renormalization and rebasing                                             *)
run_character_step(casts, g, position, velocity, on_ground, input, dt_seconds) ==
    LET movement == sanitize_motion_input(input.movement)
        no_clip_velocity == Scale(movement, NoClipMovementSpeed)
        no_clip_local == translate_along(position.local, Scale(no_clip_velocity, dt_seconds))
        up == Unwrap(get_relative_up(g, position))
    IN  IF input.no_clip
        THEN [panicked |-> FALSE,
              position |-> normalize_transform(g, [position EXCEPT !.local = no_clip_local]),
              velocity |-> no_clip_velocity, on_ground |-> on_ground,
              translated |-> no_clip_local, calls |-> 0, probes |-> 0,
              iterations |-> 0, collisions |-> 0, errors |-> 0, warned |-> FALSE]
        ELSE IF ~IsSome(get_relative_up(g, position))
        THEN [panicked |-> TRUE, position |-> position, velocity |-> velocity,
              on_ground |-> on_ground, translated |-> position.local, calls |-> 0, probes |-> 0,
              iterations |-> 0, collisions |-> 0, errors |-> 0, warned |-> FALSE]
        ELSE The({ [panicked |-> FALSE,
                    position |-> normalize_transform(g, [position EXCEPT !.local = r.local]),
                    velocity |-> r.velocity, on_ground |-> r.on_ground,
                    translated |-> r.local, calls |-> r.calls, probes |-> r.probes,
                    iterations |-> r.iterations, collisions |-> r.collisions,
                    errors |-> r.errors, warned |-> r.warned] :
                     r \in { character_step_with_collisions(casts, position, velocity, input,
                                                            dt_seconds, movement, up, probe) :
                               probe \in { IF on_ground
                                           THEN get_ground_normal(casts, 0, up,
                                                                  GroundDistanceTolerance)
                                           ELSE [ground_normal |-> None, calls |-> 0] } } })

----------------------------------------------------------------------------
(* The inputs of the model *)

(* the voxel payloads handed to populate_chunk: uniform ones, and a dense   *)
(* one with a void margin, as a payload received from the server has        *)
PopulateInputs ==
    { Solid("Dirt"),
      Dense([i \in 1 .. Pow(Dimension + 2, 3) |->
                IF IsMarginIndex(i - 1, Dimension + 2) \/ i % 2 = 0 THEN "Void" ELSE "Dirt"]) }

(* the coordinates and materials update_block is called with *)
EditInputs == { <<<<1, 0, 0>>, "Void">>, <<<<0, 1, 1>>, "Dirt">> }

(* the geometry sphere_cast is called with. A side is given by the         *)
(* distance from which the segment is near it and the distance from which   *)
(* the cell behind it is not excluded: side 0 has no cell behind it and is  *)
(* near in the chunks of one vertex only, side 1 leads to the other cell,   *)
(* side 2 is never near.                                                    *)
OpenSideProfiles == { <<Never, 1>>, <<1, 1>>, <<2, 1>>, <<1, 2>> }
GrownSideProfiles == { <<Never, 1>>, <<1, 1>>, <<2, 1>> }

(* the least distance at which the swept sphere comes within reach of a     *)
(* chunk: past the side towards its cell and past the boundary towards its  *)
(* vertex                                                                   *)
EntryDistance(position_node, chunk, towards_cell, towards_vertex) ==
    LET a == IF chunk.node = position_node THEN 1 ELSE towards_cell
        b == IF chunk.vertex = 0 THEN 1 ELSE towards_vertex
    IN  IF a >= b THEN a ELSE b

(* the voxels of the start chunk are hit at h0 or not at all; those of      *)
(* another chunk hx after the sphere comes within reach of it, or not at all *)
Scenes(position_node) ==
    { [hit |-> [c \in ChunkIds |->
                    IF c = ChunkId(position_node, 0) THEN h0
                    ELSE IF hx = Never \/ EntryDistance(position_node, c, p1[1], o) + hx >= Never
                    THEN Never
                    ELSE EntryDistance(position_node, c, p1[1], o) + hx],
       near |-> [v \in Vertices |-> [s \in Sides |->
                    IF s = 0 THEN (IF v = w THEN p0[1] ELSE Never)
                    ELSE IF s = 1 THEN p1[1] ELSE Never]],
       reach |-> [s \in Sides |-> IF s = 0 THEN p0[2] ELSE IF s = 1 THEN p1[2] ELSE 1],
       over |-> o] :
        h0 \in 1 .. Never, hx \in {0, 1, Never}, w \in Vertices,
        p0 \in OpenSideProfiles, p1 \in GrownSideProfiles, o \in 1 .. Never }

(* the state and the input a controller step is called with *)
Velocities == { Vector(Vec2(h, u)) : h \in {0, 2}, u \in {-2, 0} }
Movements == { Vec2(0, 0), Vec2(1, 0), Vec2(-2, 0) }
CharacterInputs ==
    [movement : Movements, jump : BOOLEAN, no_clip : {FALSE}]
        \cup [movement : Movements, jump : {FALSE}, no_clip : {TRUE}]
TimeSteps == 1 .. MaxDt

(* what the sphere_cast calls of one step answer, in order, the last answer *)
(* standing for all later calls                                             *)
CastAnswers ==
    {[kind |-> "Err"], [kind |-> "Miss"]}
        \cup { [kind |-> "Hit", at |-> at, normal |-> normal] : at \in 0 .. 1, normal \in Normals }
CastPatterns ==
    { <<c>> : c \in CastAnswers } \cup { <<c, d>> : c \in CastAnswers, d \in CastAnswers }

(* the vectors and bounds add_and_apply_bound is called with: a surface is  *)
(* a floor (level or sloping, its normal given by direction) pushed and     *)
(* pulled along up, or a wall or ceiling pushed along its normal            *)
FloorNormals == { Vec2(0, 1), Vec2(1, 1), Vec2(-1, 1) }
WallNormals == { Vec2(1, 0), Vec2(-1, 0), Vec2(0, -1) }
InitialVectors == { Vector(Vec2(x, y)) : x \in -1 .. 1, y \in -1 .. 1 }
NewBounds ==
    { new_push(n, n) : n \in WallNormals } \cup { new_push(n, Up) : n \in FloorNormals }
TemporaryBounds == { <<>> } \cup { <<new_pull(n, Up)>> : n \in FloorNormals }

(* the wire payloads and dimensions the conversions are called with *)
Dimensions == 0 .. Dimension
Payloads == UNION { [1 .. n -> Materials] : n \in 0 .. Pow(Dimension, 3) }

(* the sides across which the owner discovers new cells *)
GrowSides == {1}

(* the surface cache handles (lru_slab::SlotId) the renderer hands out *)
SlotIds == {1, 2}

ExistingChunkIds(g) == { c \in ChunkIds : c.node \in GraphNodes(g) }

IsPopulated(g, c) == IsSome(get_chunk(g, c)) /\ Unwrap(get_chunk(g, c)).tag = "Populated"

(* the sequences of distinct nodes with a value, the node sets load_chunks is called with *)
NodeLists(g) ==
    LET pop == { n \in GraphNodes(g) : IsSome(graph_get(g, n)) }
    IN  { <<n>> : n \in pop } \cup { l \in { <<n, m>> : n \in pop, m \in pop } : l[1] # l[2] }

(* whether the build checks integer overflow; it shows only when drive     *)
(* finds more results than the fill counter counts                         *)
BuildProfiles(ld) == IF Len(ld.recv) > ld.fill THEN BOOLEAN ELSE {TRUE}

SlotsInUse(g) ==
    { s \in SlotIds : \E c \in ExistingChunkIds(g) :
        IsPopulated(g, c)
        /\ (Unwrap(get_chunk(g, c)).surface = Some(s)
            \/ Unwrap(get_chunk(g, c)).old_surface = Some(s)) }

----------------------------------------------------------------------------
(* The history of the loader since its last drive(): k results processed by *)
(* that drive() out of f requests in flight before it, ok calls of load     *)
(* that succeeded since, until the first one that failed                    *)

HistInit == [k |-> None, f |-> 0, ok |-> 0, failed |-> FALSE]

RECURSIVE CountLeadingTrue(_, _)
CountLeadingTrue(loads, i) ==
    IF i > Len(loads) \/ ~loads[i] THEN 0 ELSE 1 + CountLeadingTrue(loads, i + 1)

HistAfterLoads(h, loads) ==
    IF h.failed \/ ~IsSome(h.k) THEN h
    ELSE [h EXCEPT !.ok = h.ok + CountLeadingTrue(loads, 1),
                   !.failed = \E i \in 1 .. Len(loads) : ~loads[i]]

----------------------------------------------------------------------------
(* The state machine *)

Init ==
    /\ graph = GraphNew
    /\ \E capacity \in 1 .. MaxCapacity : loader = ChunkLoaderNew(capacity)
    /\ last = None
    /\ panicked = FALSE
    /\ budget = [populate |-> MaxOwnerCalls, update |-> MaxOwnerCalls, render |-> 0,
                 total |-> MaxOwnerCalls]
    /\ hist = HistInit

(* the owner discovers a new cell *)
EnsureNeighbor(node, side) ==
    /\ ~panicked
    /\ graph.len < MaxNodes
    /\ node \in GraphNodes(graph)
    /\ ~IsSome(neighbor(graph, node, side))
    /\ graph' = ensure_neighbor(graph, node, side)
    /\ last' = None
    /\ UNCHANGED <<loader, panicked, budget, hist>>

PopulateFreshNodes ==
    /\ ~panicked
    /\ graph.fresh # <<>>
    /\ graph' = populate_fresh_nodes(graph)
    /\ last' = None
    /\ UNCHANGED <<loader, panicked, budget, hist>>

LoadChunks(nodes) ==
    /\ ~panicked
    /\ LET r == load_chunks(loader, graph, Dimension, nodes)
       IN  /\ loader' = r.loader
           /\ graph' = r.graph
           /\ panicked' = r.panicked
           /\ hist' = HistAfterLoads(hist, r.loads)
    /\ last' = None
    /\ UNCHANGED budget

Dispatch ==
    /\ ~panicked
    /\ loader.send # <<>>
    /\ loader' = dispatch(loader)
    /\ last' = None
    /\ UNCHANGED <<graph, panicked, budget, hist>>

(* the output channel is bounded: send().await completes when it has room *)
TaskSend(i) ==
    /\ ~panicked
    /\ i \in 1 .. Len(loader.tasks)
    /\ Len(loader.recv) < loader.capacity
    /\ loader' = task_send(loader, i)
    /\ last' = None
    /\ UNCHANGED <<graph, panicked, budget, hist>>

Drive(overflow_checks) ==
    /\ ~panicked
    /\ LET r == drive(loader, graph, overflow_checks)
       IN  /\ loader' = r.loader
           /\ graph' = r.graph
           /\ panicked' = r.panicked
    /\ hist' = [k |-> Some(Len(loader.recv)), f |-> loader.fill, ok |-> 0, failed |-> FALSE]
    /\ last' = None
    /\ UNCHANGED budget

PopulateChunk(chunk, new_data, modified) ==
    /\ ~panicked
    /\ budget.populate > 0 /\ budget.total > 0
    /\ chunk \in ExistingChunkIds(graph)
    /\ budget' = [budget EXCEPT !.populate = @ - 1, !.total = @ - 1]
    /\ LET r == populate_chunk(graph, chunk, new_data, modified)
       IN  /\ graph' = r.graph
           /\ panicked' = r.panicked
    /\ last' = Some([call |-> "populate_chunk", chunk |-> chunk, ret |-> TRUE])
    /\ UNCHANGED <<loader, hist>>

UpdateBlock(block_update) ==
    /\ ~panicked
    /\ budget.update > 0 /\ budget.total > 0
    /\ block_update.chunk_id \in ExistingChunkIds(graph)
    /\ budget' = [budget EXCEPT !.update = @ - 1, !.total = @ - 1]
    /\ LET r == update_block(graph, block_update)
       IN  /\ graph' = r.graph
           /\ panicked' = r.panicked
           /\ last' = Some([call |-> "update_block", chunk |-> block_update.chunk_id,
                            ret |-> r.ret])
    /\ UNCHANGED <<loader, hist>>

(* the renderer (not part of the sources at hand) caches a surface for a    *)
(* populated chunk that has none, in the lowest free slot                   *)
Render(chunk) ==
    /\ ~panicked
    /\ budget.render > 0 /\ budget.total > 0
    /\ chunk \in ExistingChunkIds(graph)
    /\ IsPopulated(graph, chunk)
    /\ Unwrap(get_chunk(graph, chunk)).surface = None
    /\ SlotIds \ SlotsInUse(graph) # {}
    /\ LET slot == CHOOSE s \in SlotIds \ SlotsInUse(graph) :
                        \A t \in SlotIds \ SlotsInUse(graph) : s <= t
       IN  graph' = set_chunk(graph, chunk,
                              [Unwrap(get_chunk(graph, chunk)) EXCEPT !.surface = Some(slot)])
    /\ budget' = [budget EXCEPT !.render = @ - 1, !.total = @ - 1]
    /\ last' = None
    /\ UNCHANGED <<loader, panicked, hist>>

Next ==
    \/ \E node \in NodeIds, side \in GrowSides : EnsureNeighbor(node, side)
    \/ PopulateFreshNodes
    \/ \E nodes \in NodeLists(graph) : LoadChunks(nodes)
    \/ Dispatch
    \/ \E i \in 1 .. MaxCapacity + 1 : TaskSend(i)
    \/ \E overflow_checks \in BuildProfiles(loader) : Drive(overflow_checks)
    \/ \E chunk \in ChunkIds, new_data \in PopulateInputs, modified \in BOOLEAN :
            PopulateChunk(chunk, new_data, modified)
    \/ \E chunk \in ChunkIds, edit \in EditInputs :
            UpdateBlock(BlockUpdate(chunk, edit[1], edit[2]))

Spec == Init /\ [][Next]_vars

(* The chunk store on its own: the loader only submits requests, and the    *)
(* owner and the renderer work on the chunks                                *)
StoreInit ==
    /\ graph = GraphNew
    /\ \E capacity \in 1 .. MaxCapacity : loader = ChunkLoaderNew(capacity)
    /\ last = None
    /\ panicked = FALSE
    /\ budget = [populate |-> MaxStorePopulates, update |-> MaxStoreUpdates,
                 render |-> MaxRenders, total |-> MaxStoreCalls]
    /\ hist = HistInit

StoreNext ==
    \/ \E node \in NodeIds, side \in GrowSides : EnsureNeighbor(node, side)
    \/ PopulateFreshNodes
    \/ \E nodes \in NodeLists(graph) : LoadChunks(nodes)
    \/ \E chunk \in ChunkIds, new_data \in PopulateInputs, modified \in BOOLEAN :
            PopulateChunk(chunk, new_data, modified)
    \/ \E chunk \in ChunkIds, edit \in EditInputs :
            UpdateBlock(BlockUpdate(chunk, edit[1], edit[2]))
    \/ \E chunk \in ChunkIds : Render(chunk)

StoreSpec == StoreInit /\ [][StoreNext]_vars

(* The scheduling the loader relies on: the runtime runs the dispatching    *)
(* task and every spawned task, and the owner calls drive and, for every    *)
(* node with a value, load_chunks over a node list with that node, step     *)
(* after step.                                                              *)
LoadChunksOver(node) ==
    \E nodes \in NodeLists(graph) :
        /\ \E i \in 1 .. Len(nodes) : nodes[i] = node
        /\ LoadChunks(nodes)

(* load_chunks over the node alone would submit a request: the node has a   *)
(* Fresh chunk with computable parameters and the loader has room. Where    *)
(* this holds LoadChunksOver(node) is enabled, so the condition on          *)
(* load_chunks below is implied by WF_vars(LoadChunksOver(node)).           *)
CanLoad(node) ==
    /\ ~panicked
    /\ node \in GraphNodes(graph)
    /\ loader.fill < loader.capacity
    /\ Len(loader.send) < loader.capacity
    /\ \E v \in Vertices :
        /\ IsSome(get_chunk(graph, ChunkId(node, v)))
        /\ Unwrap(get_chunk(graph, ChunkId(node, v))).tag = "Fresh"
        /\ IsSome(chunk_params_new(Dimension, graph, node, v))

Fairness ==
    /\ WF_vars(Dispatch)
    /\ WF_vars(\E i \in 1 .. MaxCapacity + 1 : TaskSend(i))
    /\ WF_vars(\E overflow_checks \in BuildProfiles(loader) : Drive(overflow_checks))
    /\ \A node \in NodeIds :
            []<>(~CanLoad(node)) \/ []<><<LoadChunksOver(node)>>_vars

LiveSpec == Init /\ [][Next]_vars /\ Fairness

----------------------------------------------------------------------------
(* Collision queries on the chunk store *)

SphereCast(position_node, scene, tanh_distance) ==
    /\ ~panicked
    /\ budget.cast > 0
    /\ position_node \in GraphNodes(graph)
    /\ budget' = [budget EXCEPT !.cast = @ - 1]
    /\ LET r == sphere_cast(graph, position_node, scene, tanh_distance)
       IN  /\ last' = Some([call |-> "sphere_cast", node |-> position_node, scene |-> scene,
                            tanh_distance |-> tanh_distance, ret |-> r])
           /\ panicked' = (r.result = "Panic")
    /\ UNCHANGED <<graph, loader, hist>>

CastInit ==
    /\ graph = GraphNew
    /\ loader = ChunkLoaderNew(1)
    /\ last = None
    /\ panicked = FALSE
    /\ budget = [populate |-> MaxCastPopulates, update |-> 0, render |-> 0,
                 total |-> MaxCastPopulates, cast |-> MaxCasts]
    /\ hist = HistInit

CastNext ==
    \/ \E node \in NodeIds, side \in GrowSides : EnsureNeighbor(node, side)
    \/ PopulateFreshNodes
    \/ \E nodes \in NodeLists(graph) : LoadChunks(nodes)
    \/ \E chunk \in ChunkIds : PopulateChunk(chunk, Solid("Dirt"), FALSE)
    \/ /\ budget.cast > 0
       /\ \E position_node \in NodeIds, tanh_distance \in TanhDistances :
             \E scene \in Scenes(position_node) :
                 SphereCast(position_node, scene, tanh_distance)

CastSpec == CastInit /\ [][CastNext]_vars

----------------------------------------------------------------------------
(* Character controller steps *)

RunCharacterStep(casts, node, velocity, on_ground, input, dt_seconds) ==
    /\ ~panicked
    /\ budget.step > 0
    /\ node \in GraphNodes(graph)
    /\ budget' = [budget EXCEPT !.step = @ - 1]
    /\ LET r == run_character_step(casts, graph, [node |-> node, local |-> LocalIdentity],
                                   velocity, on_ground, input, dt_seconds)
       IN  /\ last' = Some([call |-> "run_character_step", casts |-> casts, node |-> node,
                            velocity |-> velocity, on_ground |-> on_ground, input |-> input,
                            dt_seconds |-> dt_seconds, ret |-> r])
           /\ panicked' = r.panicked
    /\ UNCHANGED <<graph, loader, hist>>

ControllerInit ==
    /\ graph = GraphNew
    /\ loader = ChunkLoaderNew(1)
    /\ last = None
    /\ panicked = FALSE
    /\ budget = [populate |-> 0, update |-> 0, render |-> 0, total |-> 0, step |-> MaxSteps]
    /\ hist = HistInit

ControllerNext ==
    \/ \E node \in NodeIds, side \in GrowSides : EnsureNeighbor(node, side)
    \/ PopulateFreshNodes
    \/ /\ budget.step > 0
       /\ \E casts \in CastPatterns, node \in NodeIds, velocity \in Velocities,
             on_ground \in BOOLEAN, input \in CharacterInputs, dt_seconds \in TimeSteps :
               RunCharacterStep(casts, node, velocity, on_ground, input, dt_seconds)

ControllerSpec == ControllerInit /\ [][ControllerNext]_vars

----------------------------------------------------------------------------
(* Conversions between the wire form and the padded form of voxel data *)

FromSerializable(voxels, dimension) ==
    /\ ~panicked
    /\ last = None
    /\ last' = Some([call |-> "from_serializable", voxels |-> voxels, dimension |-> dimension,
                     ret |-> from_serializable([voxels |-> voxels], dimension)])
    /\ UNCHANGED <<graph, loader, panicked, budget, hist>>

(* the voxel data just built is converted back *)
ToSerializable ==
    /\ ~panicked
    /\ IsSome(last) /\ Unwrap(last).call = "from_serializable"
    /\ IsSome(Unwrap(last).ret)
    /\ LET r == to_serializable(Unwrap(Unwrap(last).ret), Unwrap(last).dimension)
       IN  /\ last' = Some([call |-> "to_serializable", data |-> Unwrap(Unwrap(last).ret),
                            dimension |-> Unwrap(last).dimension,
                            origin |-> Unwrap(last).voxels, ret |-> r.voxels])
           /\ panicked' = r.panicked
    /\ UNCHANGED <<graph, loader, budget, hist>>

SerialInit ==
    /\ graph = GraphNew
    /\ loader = ChunkLoaderNew(1)
    /\ last = None
    /\ panicked = FALSE
    /\ budget = [populate |-> 0, update |-> 0, render |-> 0, total |-> 0]
    /\ hist = HistInit

SerialNext ==
    \/ \E voxels \in Payloads, dimension \in Dimensions : FromSerializable(voxels, dimension)
    \/ ToSerializable

SerialSpec == SerialInit /\ [][SerialNext]_vars

----------------------------------------------------------------------------
(* Bounds added to one VectorBounds, as handle_collision adds them *)

AddAndApplyBound(new_bound, temporary_bounds) ==
    /\ ~panicked
    /\ budget.bound > 0
    /\ IsSome(last)
    /\ budget' = [budget EXCEPT !.bound = @ - 1]
    /\ LET now == Unwrap(last).ret
       IN  last' = Some([call |-> "add_and_apply_bound", self |-> now.bounds,
                         new_bound |-> new_bound, temporary_bounds |-> temporary_bounds,
                         vector |-> now.vector, tagalong |-> now.tagalong,
                         ret |-> add_and_apply_bound(now.bounds, new_bound, temporary_bounds,
                                                     now.vector, now.tagalong)])
    /\ UNCHANGED <<graph, loader, panicked, hist>>

BoundInit ==
    /\ graph = GraphNew
    /\ loader = ChunkLoaderNew(1)
    /\ \E initial_vector \in InitialVectors, with_tagalong \in BOOLEAN :
            last = Some([call |-> "VectorBounds::new",
                         ret |-> [bounds |-> VectorBounds_new(initial_vector),
                                  vector |-> initial_vector,
                                  tagalong |-> IF with_tagalong THEN Some(initial_vector)
                                               ELSE None]])
    /\ panicked = FALSE
    /\ budget = [populate |-> 0, update |-> 0, render |-> 0, total |-> 0, bound |-> MaxBounds]
    /\ hist = HistInit

BoundNext ==
    \E new_bound \in NewBounds, temporary_bounds \in TemporaryBounds :
        AddAndApplyBound(new_bound, temporary_bounds)

BoundSpec == BoundInit /\ [][BoundNext]_vars

----------------------------------------------------------------------------
(* Collisions handled in one apply_velocity *)

HandleCollision(collision) ==
    /\ ~panicked
    /\ budget.collision > 0
    /\ IsSome(last)
    /\ budget' = [budget EXCEPT !.collision = @ - 1]
    /\ LET now == Unwrap(last)
       IN  last' = Some([call |-> "handle_collision", collision |-> collision,
                         initial_velocity_info |-> now.initial_velocity_info,
                         before |-> now.ret,
                         ret |-> handle_collision(collision, Up, now.initial_velocity_info,
                                                  now.ret.velocity_info, now.ret.ground_normal,
                                                  now.ret.ground_collision_handled)])
    /\ UNCHANGED <<graph, loader, panicked, hist>>

(* the check_collision of one iteration of the loop, with the displacement  *)
(* expected for one unit of time                                            *)
CheckCollision(cast) ==
    /\ ~panicked
    /\ budget.check > 0
    /\ IsSome(last)
    /\ budget' = [budget EXCEPT !.check = @ - 1]
    /\ LET now == Unwrap(last)
           relative_displacement ==
                [per_tick |-> now.ret.velocity_info.average_velocity, ticks |-> 1]
       IN  last' = Some([call |-> "check_collision", cast |-> cast,
                         relative_displacement |-> relative_displacement,
                         initial_velocity_info |-> now.initial_velocity_info,
                         ret |-> now.ret,
                         result |-> check_collision(cast, relative_displacement)])
    /\ UNCHANGED <<graph, loader, panicked, hist>>

(* apply_velocity before its loop *)
CollisionInit ==
    /\ graph = GraphNew
    /\ loader = ChunkLoaderNew(1)
    /\ \E average_velocity \in InitialVectors, ground_normal \in {None, Some(Up)} :
            LET initial_velocity_info ==
                    VelocityInfo(VectorBounds_new(average_velocity), average_velocity,
                                 average_velocity)
            IN  last = Some([call |-> "apply_velocity",
                             initial_velocity_info |-> initial_velocity_info,
                             ret |-> [velocity_info |-> initial_velocity_info,
                                      ground_normal |-> ground_normal,
                                      ground_collision_handled |-> FALSE]])
    /\ panicked = FALSE
    /\ budget = [populate |-> 0, update |-> 0, render |-> 0, total |-> 0,
                 collision |-> MaxCollisions, check |-> MaxChecks]
    /\ hist = HistInit

CollisionNext ==
    \/ \E normal \in FloorNormals \cup WallNormals : HandleCollision([normal |-> normal])
    \/ \E cast \in CastAnswers : CheckCollision(cast)

CollisionSpec == CollisionInit /\ [][CollisionNext]_vars

----------------------------------------------------------------------------
(* The client's Sim (client/src/sim.rs): the step it has recorded and the   *)
(* positions of the entities it knows, as changed by the messages it        *)
(* handles.  Step is a signed integer of StepBits bits in the model, so     *)
(* that the counter wraps within the bound; positions are small numbers.    *)

StepBits == 3

RECURSIVE TwoTo(_)
TwoTo(n) == IF n = 0 THEN 1 ELSE 2 * TwoTo(n - 1)

StepMin == 0 - TwoTo(StepBits - 1)

StepMax == TwoTo(StepBits - 1) - 1

Steps == StepMin..StepMax

EntityIds == {"e1", "e2"}

Positions == 0..1

(* Step::wrapping_sub: the difference modulo 2^StepBits, read as signed *)
wrapping_sub(x, y) ==
    LET d == (x - y) % TwoTo(StepBits)
    IN  IF d > StepMax THEN d - TwoTo(StepBits) ELSE d

(* handle_net without the wrapping: the steps compared as plain numbers *)
handle_net_plain_order(sim, msg) ==
    IF msg.kind = "StateDelta"
    THEN IF IsSome(sim.step) /\ Unwrap(sim.step) >= msg.step
         THEN sim
         ELSE [step |-> Some(msg.step),
               positions |-> [id \in EntityIds |->
                    IF IsSome(sim.positions[id]) /\ IsSome(msg.positions[id])
                    THEN msg.positions[id] ELSE sim.positions[id]]]
    ELSE [step |-> IF IsSome(sim.step) /\ Unwrap(sim.step) >= msg.step
                   THEN sim.step ELSE Some(msg.step),
          positions |-> [id \in EntityIds |->
                    IF id \in msg.despawns THEN None
                    ELSE IF IsSome(msg.spawns[id]) THEN msg.spawns[id]
                    ELSE sim.positions[id]]]

(* handle_net on a StateDelta or a Spawns message.  A StateDelta is dropped *)
(* when the recorded step minus its step, wrapping, is not negative; else   *)
(* its step is recorded and update_position overwrites the position of      *)
(* every entity it names that the client knows.  handle_spawns records the  *)
(* greater of the two steps in the plain order of Option<Step> (None least),*)
(* spawns the entities of the message, then removes the despawned ones.     *)
handle_net(sim, msg) ==
    IF msg.kind = "StateDelta"
    THEN IF IsSome(sim.step) /\ wrapping_sub(Unwrap(sim.step), msg.step) >= 0
         THEN sim
         ELSE [step |-> Some(msg.step),
               positions |-> [id \in EntityIds |->
                    IF IsSome(sim.positions[id]) /\ IsSome(msg.positions[id])
                    THEN msg.positions[id] ELSE sim.positions[id]]]
    ELSE [step |-> IF IsSome(sim.step) /\ Unwrap(sim.step) >= msg.step
                   THEN sim.step ELSE Some(msg.step),
          positions |-> [id \in EntityIds |->
                    IF id \in msg.despawns THEN None
                    ELSE IF IsSome(msg.spawns[id]) THEN msg.spawns[id]
                    ELSE sim.positions[id]]]

(* the messages of the server: a StateDelta names a position for some of    *)
(* the entities, a Spawns message spawns and despawns some                  *)
Messages ==
    LET Named == [EntityIds -> {None} \cup { Some(p) : p \in Positions }]
    IN  { [kind |-> "StateDelta", step |-> s, positions |-> ps] :
                s \in Steps, ps \in Named }
        \cup { [kind |-> "Spawns", step |-> s, spawns |-> sp, despawns |-> ds] :
                s \in Steps,
                sp \in { f \in Named : \A id \in EntityIds : f[id] \in {None, Some(0)} },
                ds \in { d \in SUBSET EntityIds : Cardinality(d) <= 1 } }

MaxMessages == 3

(* one message taken from net.incoming and handled *)
HandleNet(msg) ==
    /\ ~panicked
    /\ budget.message > 0
    /\ IsSome(last)
    /\ budget' = [budget EXCEPT !.message = @ - 1]
    /\ last' = Some([call |-> "handle_net", msg |-> msg,
                     before |-> Unwrap(last).ret,
                     ret |-> handle_net(Unwrap(last).ret, msg)])
    /\ UNCHANGED <<graph, loader, panicked, hist>>

(* Sim::new: no step recorded, no entity known *)
ClientInit ==
    /\ graph = GraphNew
    /\ loader = ChunkLoaderNew(1)
    /\ last = Some([call |-> "Sim::new",
                    ret |-> [step |-> None, positions |-> [id \in EntityIds |-> None]]])
    /\ panicked = FALSE
    /\ budget = [populate |-> 0, update |-> 0, render |-> 0, total |-> 0,
                 message |-> MaxMessages]
    /\ hist = HistInit

ClientNext == \E msg \in Messages : HandleNet(msg)

ClientSpec == ClientInit /\ [][ClientNext]_vars

----------------------------------------------------------------------------
(* Notions the claims are stated with *)

ChunkAt(g, c) == Unwrap(get_chunk(g, c))

HasTag(g, c, tag) == IsSome(get_chunk(g, c)) /\ ChunkAt(g, c).tag = tag

(* the requests in flight: waiting to be dispatched, being generated, waiting to be merged *)
InFlight(ld) == Len(ld.send) + Len(ld.tasks) + Len(ld.recv)

(* the chunk's parameters are computable *)
Computable(g, c) == IsSome(chunk_params_new(Dimension, g, c.node, c.vertex))

(* a step of load_chunks, of drive *)
LoadChunksStep == \E nodes \in NodeLists(graph) : LoadChunks(nodes)
DriveStep == \E overflow_checks \in BuildProfiles(loader) : Drive(overflow_checks)

----------------------------------------------------------------------------
(* C1: in every reachable state the fill counter, and with it the number   *)
(* of requests in flight, is at most capacity.                             *)
C1_FillAtMostCapacity ==
    /\ loader.fill <= loader.capacity
    /\ InFlight(loader) <= loader.capacity

(* the loader is full with more than one request, and a call of load has been refused *)
C1_Witness ==
    /\ loader.fill = loader.capacity
    /\ loader.capacity > 1
    /\ hist.failed

(* C2, as claimed: after a drive() that processed k results, the first      *)
(* capacity - k calls of load succeed.                                      *)
C2_CapacityMinusK ==
    (IsSome(hist.k) /\ hist.failed) => hist.ok >= loader.capacity - Unwrap(hist.k)

(* C2, amended: after a drive() that processed k of the f requests in       *)
(* flight, exactly capacity - (f - k) calls of load succeed before the next *)
(* drive(): no more succeed, and the first one refused comes after them.    *)
C2_CapacityMinusRemaining ==
    IsSome(hist.k) =>
        /\ hist.ok <= loader.capacity - (hist.f - Unwrap(hist.k))
        /\ hist.failed => hist.ok = loader.capacity - (hist.f - Unwrap(hist.k))

(* a drive() processed one of two requests in flight; one call of load      *)
(* succeeded after it and the next was refused                              *)
C2_Witness ==
    /\ hist.k = Some(1)
    /\ hist.f = 2
    /\ hist.ok = 1
    /\ hist.failed

(* C3: a step of load_chunks turns a chunk from Fresh to Generating only    *)
(* when its request was put on the channel; the fill counter grows by the   *)
(* number of chunks so marked; no other chunk changes; with the counter     *)
(* full the step changes neither graph nor loader.                          *)
C3_MarkedOnlyIfSubmitted ==
    [][LoadChunksStep =>
        LET marked == { c \in ExistingChunkIds(graph) :
                            HasTag(graph, c, "Fresh") /\ HasTag(graph', c, "Generating") }
            sent == { i \in 1 .. Len(loader'.send) : i > Len(loader.send) }
        IN  /\ \A c \in marked :
                    \E i \in sent : /\ loader'.send[i].node = c.node
                                    /\ loader'.send[i].params.chunk = c.vertex
            /\ Cardinality(marked) = Cardinality(sent)
            /\ loader'.fill = loader.fill + Cardinality(marked)
            /\ \A c \in ExistingChunkIds(graph) \ marked :
                    get_chunk(graph', c) = get_chunk(graph, c)
            /\ loader.fill = loader.capacity => (graph' = graph /\ loader' = loader)
    ]_vars

(* load_chunks has skipped a chunk: a call of load was refused, the chunk   *)
(* is still Fresh and computable, and the loader is full                    *)
C3_Witness ==
    /\ hist.failed
    /\ loader.fill = loader.capacity
    /\ \E c \in ExistingChunkIds(graph) : HasTag(graph, c, "Fresh") /\ Computable(graph, c)
    /\ \E c \in ExistingChunkIds(graph) : HasTag(graph, c, "Generating")

(* C4: a chunk that is Populated is Populated after every step.             *)
C4_PopulatedStaysPopulated ==
    [][\A c \in ChunkIds : IsPopulated(graph, c) => IsPopulated(graph', c)]_vars

(* a chunk is Populated and modified after load_chunks, drive and the owner *)
(* have acted                                                               *)
C4_Witness ==
    /\ \E c \in ExistingChunkIds(graph) : IsPopulated(graph, c) /\ ChunkAt(graph, c).modified
    /\ IsSome(hist.k)
    /\ hist.ok > 0
    /\ budget.total = 0

(* a request for the chunk is in flight *)
RequestInFlight(ld, c) ==
    \/ \E i \in 1 .. Len(ld.send) : ld.send[i].node = c.node /\ ld.send[i].params.chunk = c.vertex
    \/ \E i \in 1 .. Len(ld.tasks) : ld.tasks[i].node = c.node /\ ld.tasks[i].params.chunk = c.vertex
    \/ \E i \in 1 .. Len(ld.recv) : ld.recv[i].node = c.node /\ ld.recv[i].chunk = c.vertex

(* C5: under the loader's scheduling, every request in flight is merged,    *)
(* and every chunk that is Fresh with computable parameters, or Generating, *)
(* becomes Populated, as long as the program has not panicked.              *)
C5_EventuallyPopulated ==
    \A c \in ChunkIds :
        /\ (RequestInFlight(loader, c)) ~> (~RequestInFlight(loader, c) \/ panicked)
        /\ ((HasTag(graph, c, "Fresh") /\ Computable(graph, c)) \/ HasTag(graph, c, "Generating"))
                ~> (IsPopulated(graph, c) \/ panicked)

(* with room for one request only, the loader has populated every chunk of  *)
(* both nodes, the owner having populated none                              *)
C5_Witness ==
    /\ loader.capacity = 1
    /\ budget.total = MaxOwnerCalls
    /\ ~panicked
    /\ \A c \in ChunkIds : IsPopulated(graph, c)

(* C6, as claimed: drive leaves the voxels of a chunk that is already       *)
(* Populated as they are.                                                   *)
C6_StaleResultHarmless ==
    [][DriveStep =>
        \A c \in ExistingChunkIds(graph) :
            IsPopulated(graph, c) => ChunkAt(graph', c).voxels = ChunkAt(graph, c).voxels
    ]_vars

(* C7: load_chunks and drive leave the nodes, the neighbor relation, the    *)
(* parents, the fresh list and every node's state as they are, and give no  *)
(* node a value or take one away.                                           *)
C7_LoaderLeavesGraph ==
    [][(LoadChunksStep \/ DriveStep) =>
        /\ graph'.len = graph.len
        /\ graph'.neighbors = graph.neighbors
        /\ graph'.parent = graph.parent
        /\ graph'.fresh = graph.fresh
        /\ \A n \in NodeIds :
            /\ IsSome(graph_get(graph', n)) = IsSome(graph_get(graph, n))
            /\ IsSome(graph_get(graph, n)) =>
                    Unwrap(graph_get(graph', n)).state = Unwrap(graph_get(graph, n)).state
    ]_vars

(* drive has merged a result into a node other than the root while a        *)
(* request of load_chunks is in flight                                      *)
C7_Witness ==
    /\ IsSome(hist.k) /\ Unwrap(hist.k) > 0
    /\ \E c \in ExistingChunkIds(graph) : c.node # ROOT /\ IsPopulated(graph, c)
    /\ \E c \in ExistingChunkIds(graph) : HasTag(graph, c, "Generating")

(* C8: update_block on a chunk that is not Populated returns false, does    *)
(* not panic and leaves the graph as it is.                                 *)
C8_UpdateBlockFailsSafely ==
    [][\A c \in ExistingChunkIds(graph), edit \in EditInputs :
        (UpdateBlock(BlockUpdate(c, edit[1], edit[2])) /\ ~IsPopulated(graph, c)) =>
            /\ graph' = graph
            /\ last' = Some([call |-> "update_block", chunk |-> c, ret |-> FALSE])
            /\ ~panicked'
    ]_vars

(* update_block has returned false for a chunk that is being generated *)
C8_Witness ==
    /\ IsSome(last)
    /\ Unwrap(last).call = "update_block"
    /\ ~Unwrap(last).ret
    /\ HasTag(graph, Unwrap(last).chunk, "Generating")

(* The cells of the padded array, by their x, y, z: the voxel at coords is  *)
(* the cell one step past the margin on every axis                          *)
Cells == 0 .. (Pow(Dimension + 2, 3) - 1)

CellOf(coords) ==
    CHOOSE i \in Cells :
        /\ i % (Dimension + 2) = coords[1] + 1
        /\ (i \div (Dimension + 2)) % (Dimension + 2) = coords[2] + 1
        /\ i \div ((Dimension + 2) * (Dimension + 2)) = coords[3] + 1

InteriorCells == { CellOf(<<x, y, z>>) : x, y, z \in 0 .. (Dimension - 1) }

(* Dense data whose margin is void and whose voxels all hold mat: what      *)
(* clearing the margin of Solid(mat) leaves                                 *)
MarginCleared(v, mat) ==
    /\ v.tag = "Dense"
    /\ Len(v.data) = Pow(Dimension + 2, 3)
    /\ \A i \in Cells : v.data[i + 1] = IF i \in InteriorCells THEN mat ELSE "Void"

(* the chunks next to c along the three axes, in both directions *)
ChunkNeighbors(g, c) ==
    { Unwrap(get_chunk_neighbor(g, c, axis, direction)) :
        <<axis, direction>> \in
            { ad \in {0, 1, 2} \X {"Plus", "Minus"} :
                IsSome(get_chunk_neighbor(g, c, ad[1], ad[2])) } }

(* C9: update_block on a Populated chunk, with the coords of one of its     *)
(* voxels, returns true; afterwards that voxel holds the new material and   *)
(* every other voxel inside the margin is as it was, the data is Dense, the *)
(* chunk is modified, its surface is None and old_surface is the previous   *)
(* surface if there was one and the previous old_surface otherwise, and     *)
(* every neighbor that was Populated and Solid is Dense with a void margin. *)
C9_UpdateBlockWrites ==
    [][\A c \in ExistingChunkIds(graph), edit \in EditInputs :
        (UpdateBlock(BlockUpdate(c, edit[1], edit[2])) /\ IsPopulated(graph, c)) =>
            LET old == ChunkAt(graph, c)
                new == ChunkAt(graph', c)
            IN  /\ last' = Some([call |-> "update_block", chunk |-> c, ret |-> TRUE])
                /\ ~panicked'
                /\ IsPopulated(graph', c)
                /\ new.voxels.tag = "Dense"
                /\ Len(new.voxels.data) = Pow(Dimension + 2, 3)
                /\ new.voxels.data[CellOf(edit[1]) + 1] = edit[2]
                /\ \A i \in InteriorCells \ {CellOf(edit[1])} :
                        new.voxels.data[i + 1] = voxel_get(old.voxels, i)
                /\ new.modified
                /\ new.surface = None
                /\ new.old_surface = (IF old.surface # None THEN old.surface ELSE old.old_surface)
                /\ \A nb \in ChunkNeighbors(graph, c) :
                        (IsPopulated(graph, nb) /\ ChunkAt(graph, nb).voxels.tag = "Solid") =>
                            /\ IsPopulated(graph', nb)
                            /\ MarginCleared(ChunkAt(graph', nb).voxels,
                                             ChunkAt(graph, nb).voxels.mat)
    ]_vars

(* update_block has returned true for a chunk that had a surface, next to   *)
(* an unmodified chunk whose margin has been cleared                        *)
C9_Witness ==
    /\ IsSome(last)
    /\ Unwrap(last).call = "update_block"
    /\ Unwrap(last).ret
    /\ IsPopulated(graph, Unwrap(last).chunk)
    /\ ChunkAt(graph, Unwrap(last).chunk).old_surface # None
    /\ \E nb \in ChunkNeighbors(graph, Unwrap(last).chunk) :
            /\ IsPopulated(graph, nb)
            /\ ~ChunkAt(graph, nb).modified
            /\ MarginCleared(ChunkAt(graph, nb).voxels, "Dirt")

(* C10: when populate_chunk commits Solid data, the data it stores has its  *)
(* margin cleared if one of the chunk's neighbors, along the three axes in  *)
(* both directions, is Populated and modified, and is the data as given,    *)
(* still Solid, if none is.                                                 *)
C10_PopulateChunkClearsMargin ==
    [][\A c \in ExistingChunkIds(graph), new_data \in PopulateInputs, modified \in BOOLEAN :
        (PopulateChunk(c, new_data, modified) /\ ~panicked' /\ new_data.tag = "Solid") =>
            /\ IsPopulated(graph', c)
            /\ IF \E nb \in ChunkNeighbors(graph, c) :
                        IsPopulated(graph, nb) /\ ChunkAt(graph, nb).modified
               THEN MarginCleared(ChunkAt(graph', c).voxels, new_data.mat)
               ELSE ChunkAt(graph', c).voxels = new_data
    ]_vars

(* populate_chunk has committed unmodified Solid data, with its margin      *)
(* cleared, to a chunk whose only modified neighbor is in another node      *)
C10_Witness ==
    /\ IsSome(last)
    /\ Unwrap(last).call = "populate_chunk"
    /\ ~panicked
    /\ IsPopulated(graph, Unwrap(last).chunk)
    /\ ~ChunkAt(graph, Unwrap(last).chunk).modified
    /\ MarginCleared(ChunkAt(graph, Unwrap(last).chunk).voxels, "Dirt")
    /\ \E nb \in ChunkNeighbors(graph, Unwrap(last).chunk) :
            nb.node # Unwrap(last).chunk.node
            /\ IsPopulated(graph, nb) /\ ChunkAt(graph, nb).modified
    /\ \A nb \in ChunkNeighbors(graph, Unwrap(last).chunk) :
            nb.node = Unwrap(last).chunk.node =>
                ~(IsPopulated(graph, nb) /\ ChunkAt(graph, nb).modified)

(* C11: when populate_chunk commits with modified = true, every neighbor    *)
(* that was Populated and Solid is Dense with a void margin, its surface is *)
(* None and its old_surface holds the handle it had, and every other        *)
(* neighbor is as it was; with modified = false every neighbor is as it was.*)
C11_ModifiedClearsNeighbors ==
    [][\A c \in ExistingChunkIds(graph), new_data \in PopulateInputs, modified \in BOOLEAN :
        (PopulateChunk(c, new_data, modified) /\ ~panicked') =>
            \A nb \in ChunkNeighbors(graph, c) :
                IF modified /\ IsPopulated(graph, nb) /\ ChunkAt(graph, nb).voxels.tag = "Solid"
                THEN /\ IsPopulated(graph', nb)
                     /\ MarginCleared(ChunkAt(graph', nb).voxels, ChunkAt(graph, nb).voxels.mat)
                     /\ ChunkAt(graph', nb).surface = None
                     /\ ChunkAt(graph', nb).old_surface =
                            (IF ChunkAt(graph, nb).surface # None
                             THEN ChunkAt(graph, nb).surface
                             ELSE ChunkAt(graph, nb).old_surface)
                     /\ ChunkAt(graph', nb).modified = ChunkAt(graph, nb).modified
                ELSE get_chunk(graph', nb) = get_chunk(graph, nb)
    ]_vars

(* populate_chunk has committed a modified chunk next to an unmodified      *)
(* chunk that had a surface: the neighbor's margin is cleared and its       *)
(* handle has moved to old_surface                                          *)
C11_Witness ==
    /\ IsSome(last)
    /\ Unwrap(last).call = "populate_chunk"
    /\ ~panicked
    /\ IsPopulated(graph, Unwrap(last).chunk)
    /\ ChunkAt(graph, Unwrap(last).chunk).modified
    /\ \E nb \in ChunkNeighbors(graph, Unwrap(last).chunk) :
            /\ IsPopulated(graph, nb)
            /\ ~ChunkAt(graph, nb).modified
            /\ MarginCleared(ChunkAt(graph, nb).voxels, "Dirt")
            /\ ChunkAt(graph, nb).surface = None
            /\ ChunkAt(graph, nb).old_surface # None


MeetsMissingCell(g, scene, visit) ==
    /\ visit.checked
    /\ \E axis \in 0 .. 2 :
            LET side == canonical_sides(visit.chunk.vertex)[axis + 1]
            IN  /\ scene.near[visit.chunk.vertex][side] <= visit.current
                /\ scene.reach[side] <= visit.current
                /\ ~IsSome(neighbor(g, visit.chunk.node, side))

(* C13: when a visited chunk is near a side, the bounding sphere test does  *)
(* not exclude the cell behind it and that cell is missing, sphere_cast     *)
(* returns OutOfBounds and not Ok.                                          *)
C13_MissingCellIsOutOfBounds ==
    (IsSome(last) /\ Unwrap(last).call = "sphere_cast") =>
        \A i \in 1 .. Len(Unwrap(last).ret.visits) :
            MeetsMissingCell(graph, Unwrap(last).scene, Unwrap(last).ret.visits[i]) =>
                /\ Unwrap(last).ret.result = "OutOfBounds"
                /\ Unwrap(last).ret.hit = None

(* a cast that has found a hit and then, in a later chunk, comes near a     *)
(* side with no cell behind it                                              *)
C13_Witness ==
    /\ IsSome(last) /\ Unwrap(last).call = "sphere_cast"
    /\ Len(Unwrap(last).ret.visits) >= 2
    /\ Unwrap(last).ret.visits[1].current > Unwrap(last).ret.visits[2].current
    /\ ~MeetsMissingCell(graph, Unwrap(last).scene, Unwrap(last).ret.visits[1])
    /\ MeetsMissingCell(graph, Unwrap(last).scene,
                         Unwrap(last).ret.visits[Len(Unwrap(last).ret.visits)])
    /\ Unwrap(last).ret.result = "OutOfBounds"


(* the last step was a sphere_cast that returned a hit *)
CastReturnedHit ==
    /\ IsSome(last) /\ Unwrap(last).call = "sphere_cast"
    /\ Unwrap(last).ret.result = "Ok"
    /\ IsSome(Unwrap(last).ret.hit)

(* the same cast as the last one, with the distance d2 *)
CastAgain(d2) == sphere_cast(graph, Unwrap(last).node, Unwrap(last).scene, d2)

(* C14 as stated: if a cast with d1 returns a hit, the same cast with any   *)
(* d2 >= d1 also returns a hit, at a distance no greater than the first.    *)
C14_LongerCastKeepsHit ==
    CastReturnedHit =>
        \A d2 \in TanhDistances :
            d2 >= Unwrap(last).tanh_distance =>
                /\ CastAgain(d2).result = "Ok"
                /\ IsSome(CastAgain(d2).hit)
                /\ Unwrap(CastAgain(d2).hit).tanh_distance
                        <= Unwrap(Unwrap(last).ret.hit).tanh_distance

(* C14, amended: if a cast with d1 returns a hit, the same cast with any    *)
(* d2 >= d1 that returns Ok returns a hit at a distance no greater than the *)
(* first; a longer cast can fail, never turn a hit into a miss.             *)
C14_LongerCastKeepsHitIfOk ==
    CastReturnedHit =>
        \A d2 \in TanhDistances :
            (d2 >= Unwrap(last).tanh_distance /\ CastAgain(d2).result = "Ok") =>
                /\ IsSome(CastAgain(d2).hit)
                /\ Unwrap(CastAgain(d2).hit).tanh_distance
                        <= Unwrap(Unwrap(last).ret.hit).tanh_distance

(* a cast that returned a hit, found in a chunk other than the first one    *)
(* visited, and a strictly longer cast that returns Ok as well              *)
C14_Witness ==
    /\ CastReturnedHit
    /\ Unwrap(Unwrap(last).ret.hit).chunk # Unwrap(last).ret.visits[1].chunk
    /\ \E d2 \in TanhDistances :
            /\ d2 > Unwrap(last).tanh_distance
            /\ CastAgain(d2).result = "Ok"
            /\ CastAgain(d2).visits[1].current > Unwrap(last).ret.visits[1].current


(* C20: during one sphere_cast no chunk, the start chunk included, is       *)
(* collision-checked more than once.                                        *)
C20_CheckedAtMostOnce ==
    (IsSome(last) /\ Unwrap(last).call = "sphere_cast") =>
        \A i \in 1 .. Len(Unwrap(last).ret.visits) :
            \A j \in 1 .. Len(Unwrap(last).ret.visits) :
                (/\ i < j
                 /\ Unwrap(last).ret.visits[i].checked
                 /\ Unwrap(last).ret.visits[j].checked)
                    => Unwrap(last).ret.visits[i].chunk # Unwrap(last).ret.visits[j].chunk


(* the last step was a run_character_step *)
StepTaken == IsSome(last) /\ Unwrap(last).call = "run_character_step"

(* C15: with no_clip set, one run_character_step calls sphere_cast zero     *)
(* times, sets velocity to the sanitized movement times the no-clip speed,  *)
(* and multiplies position.local by exactly the translation along velocity  *)
(* times dt, whatever the casts would have answered.                        *)
C15_NoClipTranslatesDirectly ==
    (StepTaken /\ Unwrap(last).input.no_clip) =>
        LET velocity == Scale(sanitize_motion_input(Unwrap(last).input.movement),
                              NoClipMovementSpeed)
        IN  /\ ~Unwrap(last).ret.panicked
            /\ Unwrap(last).ret.calls = 0
            /\ Unwrap(last).ret.velocity = velocity
            /\ Unwrap(last).ret.translated.frame = <<>>
            /\ Unwrap(last).ret.translated.moves =
                    IF is_zero(velocity) THEN <<>>
                    ELSE <<Scale(velocity, Unwrap(last).dt_seconds)>>

(* a no_clip step with an input longer than 1, off the ground, where every  *)
(* sphere_cast would have reported a hit at once                            *)
C15_Witness ==
    /\ StepTaken /\ Unwrap(last).input.no_clip
    /\ VDot(Unwrap(last).input.movement, Unwrap(last).input.movement) > 1
    /\ ~Unwrap(last).on_ground
    /\ Unwrap(last).dt_seconds > 1
    /\ \A i \in 1 .. Len(Unwrap(last).casts) :
            Unwrap(last).casts[i].kind = "Hit" /\ Unwrap(last).casts[i].at = 0
    /\ Len(Unwrap(last).ret.translated.moves) = 1


C17_SixIterationsAtMost ==
    (StepTaken /\ ~Unwrap(last).input.no_clip) =>
        /\ Unwrap(last).ret.panicked
                <=> ~IsSome(graph_get(graph, Unwrap(last).node))
        /\ Unwrap(last).ret.iterations <= 6
        /\ Unwrap(last).ret.calls - Unwrap(last).ret.probes <= Unwrap(last).ret.iterations
        /\ Unwrap(last).ret.collisions <= Unwrap(last).ret.iterations
        /\ Unwrap(last).ret.warned
                <=> (~Unwrap(last).ret.panicked /\ Unwrap(last).ret.collisions = 6)
        /\ Len(Unwrap(last).ret.translated.moves) <= 6

(* a step in which all 6 iterations end in a collision, the position has    *)
(* moved and the velocity has been changed by the collisions                *)
C17_Witness ==
    /\ StepTaken /\ ~Unwrap(last).input.no_clip
    /\ Unwrap(last).ret.collisions = 6
    /\ Unwrap(last).ret.warned
    /\ Len(Unwrap(last).ret.translated.moves) >= 1
    /\ Unwrap(last).ret.velocity.a[1] = 0
    /\ Unwrap(last).velocity.a[1] # 0


(* C18: from_serializable returns None unless the payload has d^3 voxels;   *)
(* otherwise it returns Dense data of (d+2)^3 entries whose margin entries  *)
(* are all Void, and to_serializable of that data is the payload again.     *)
C18_WireFormRoundTrips ==
    /\ (IsSome(last) /\ Unwrap(last).call = "from_serializable") =>
            IF Len(Unwrap(last).voxels) # Pow(Unwrap(last).dimension, 3)
            THEN Unwrap(last).ret = None
            ELSE /\ IsSome(Unwrap(last).ret)
                 /\ Unwrap(Unwrap(last).ret).tag = "Dense"
                 /\ Len(Unwrap(Unwrap(last).ret).data) = Pow(Unwrap(last).dimension + 2, 3)
                 /\ \A i \in 0 .. (Pow(Unwrap(last).dimension + 2, 3) - 1) :
                        IsMarginIndex(i, Unwrap(last).dimension + 2)
                            => Unwrap(Unwrap(last).ret).data[i + 1] = "Void"
    /\ (IsSome(last) /\ Unwrap(last).call = "to_serializable") =>
            /\ ~panicked
            /\ Unwrap(last).ret = Unwrap(last).origin

(* a payload of the largest dimension that starts with a voxel that is not  *)
(* Void and ends with Void has gone through both conversions                *)
C18_Witness ==
    /\ IsSome(last) /\ Unwrap(last).call = "to_serializable"
    /\ Unwrap(last).dimension = Dimension
    /\ Unwrap(last).origin[1] # "Void"
    /\ Unwrap(last).origin[2] = "Void"
    /\ Unwrap(last).origin[Len(Unwrap(last).origin)] = "Void"

(* C19, as claimed: promotion is one-directional, that is, no step turns    *)
(* the Dense voxels of a Populated chunk back into Solid ones: a chunk      *)
(* whose data is Dense before a step has Dense data after it.               *)
C19_DenseStaysDense ==
    [][\A c \in ExistingChunkIds(graph) :
            (IsPopulated(graph, c) /\ ~is_solid(ChunkAt(graph, c).voxels))
                => (IsPopulated(graph', c) /\ ~is_solid(ChunkAt(graph', c).voxels))
    ]_vars


(* the last step was a sphere_cast *)
CastTaken == IsSome(last) /\ Unwrap(last).call = "sphere_cast"

(* the distances of the hits chunk_sphere_cast found in the visits before   *)
(* the i-th one of the last cast                                            *)
FoundBefore(i) ==
    LET visits == Unwrap(last).ret.visits
        scene == Unwrap(last).scene
    IN  { Unwrap(chunk_sphere_cast(ChunkAt(graph, visits[j].chunk).voxels, scene,
                                   visits[j].chunk, visits[j].current)) :
            j \in { k \in 1 .. (i - 1) :
                        /\ visits[k].checked
                        /\ IsSome(chunk_sphere_cast(ChunkAt(graph, visits[k].chunk).voxels,
                                                    scene, visits[k].chunk,
                                                    visits[k].current)) } }

(* the smallest of a non-empty set of distances *)
Least(S) == CHOOSE x \in S : \A y \in S : x <= y

(* C21: the distance given to each per-chunk cast is the distance of the    *)
(* best hit found so far, or the input distance when there is none, and     *)
(* never increases from one visited chunk to the next; the hit returned is  *)
(* no farther than the input distance and than any hit found in a visited   *)
(* chunk.                                                                   *)
C21_SearchDistanceShrinks ==
    CastTaken =>
        LET r == Unwrap(last).ret
            n == Len(r.visits)
        IN  /\ \A i \in 1 .. n :
                    r.visits[i].current
                        = Least({Unwrap(last).tanh_distance} \cup FoundBefore(i))
            /\ \A i \in 1 .. (n - 1) : r.visits[i + 1].current <= r.visits[i].current
            /\ r.result = "Ok" =>
                    /\ IsSome(r.hit) = (FoundBefore(n + 1) # {})
                    /\ IsSome(r.hit) =>
                            /\ Unwrap(r.hit).tanh_distance <= Unwrap(last).tanh_distance
                            /\ \A d \in FoundBefore(n + 1) : Unwrap(r.hit).tanh_distance <= d

(* a cast that returned Ok after finding, in its first chunk, a hit closer  *)
(* than the input distance, and then a hit in the second chunk              *)
C21_Witness ==
    /\ CastReturnedHit
    /\ Len(Unwrap(last).ret.visits) >= 2
    /\ Unwrap(last).ret.visits[2].current < Unwrap(last).ret.visits[1].current
    /\ IsSome(chunk_sphere_cast(ChunkAt(graph, Unwrap(last).ret.visits[2].chunk).voxels,
                                Unwrap(last).scene, Unwrap(last).ret.visits[2].chunk,
                                Unwrap(last).ret.visits[2].current))


(* the last step was an add_and_apply_bound *)
BoundAdded == IsSome(last) /\ Unwrap(last).call = "add_and_apply_bound"

(* the vector of the last call after its first step, the projection onto    *)
(* the new bound where the vector violated it                               *)
Projected ==
    LET c == Unwrap(last)
    IN  IF check_vector(c.new_bound, c.vector, c.self.error_margin) THEN c.vector
        ELSE constrain_vector(c.new_bound, c.vector, c.self.error_margin)

(* C22: after add_and_apply_bound the vector satisfies the new bound, the   *)
(* stored bounds and the temporary bounds within the error margin, or is    *)
(* the zero vector; and it is zeroed only when neither the projection onto  *)
(* the new bound nor any combined bound built from a violated existing      *)
(* bound satisfies all bounds.                                              *)
C22_BoundsHoldOrZero ==
    BoundAdded =>
        LET c == Unwrap(last)
            margin == c.self.error_margin
            bounds_iter == c.self.bounds \o c.temporary_bounds
        IN  /\ \/ is_zero(c.ret.vector)
               \/ /\ check_vector(c.new_bound, c.ret.vector, margin)
                  /\ all_check_vector(bounds_iter, c.ret.vector, margin)
            /\ (is_zero(c.ret.vector) /\ ~is_zero(Projected)) =>
                    /\ ~all_check_vector(bounds_iter, Projected, margin)
                    /\ \A i \in 1 .. Len(bounds_iter) :
                        ~check_vector(bounds_iter[i], Projected, margin) =>
                            LET ortho_bound ==
                                    get_constrained_with_bound(bounds_iter[i], c.new_bound)
                            IN  \/ ~IsSome(ortho_bound)
                                \/ ~all_check_vector(bounds_iter,
                                        constrain_vector(Unwrap(ortho_bound), Projected, margin),
                                        margin)
            /\ c.ret.bounds.bounds = Append(c.self.bounds, c.new_bound)

(* a call that zeroed the vector after the projection violated a stored     *)
(* bound and a combined bound built from a violated bound was tried         *)
C22_Witness ==
    /\ BoundAdded
    /\ is_zero(Unwrap(last).ret.vector)
    /\ ~is_zero(Projected)
    /\ \E i \in 1 .. Len(Unwrap(last).self.bounds) :
            /\ ~check_vector(Unwrap(last).self.bounds[i], Projected,
                             Unwrap(last).self.error_margin)
            /\ IsSome(get_constrained_with_bound(Unwrap(last).self.bounds[i],
                                                 Unwrap(last).new_bound))


(* the last step was a handle_collision *)
CollisionHandled == IsSome(last) /\ Unwrap(last).call = "handle_collision"

(* the bounds of a sequence applied one after the other, from the i-th on,  *)
(* to a VelocityInfo, each with the temporary bounds given                  *)
RECURSIVE AppliedInOrder(_, _, _, _)
AppliedInOrder(velocity_info, bounds, temporary_bounds, i) ==
    IF i > Len(bounds) THEN velocity_info
    ELSE LET r == add_and_apply_bound(velocity_info.bounds, bounds[i], temporary_bounds,
                                      velocity_info.average_velocity,
                                      Some(velocity_info.final_velocity))
         IN  AppliedInOrder(VelocityInfo(r.bounds, r.vector, Unwrap(r.tagalong)),
                            bounds, temporary_bounds, i + 1)

(* C23: the first floor collision handled in a step recomputes the          *)
(* velocities from the step's initial velocities, applying the floor bound  *)
(* first and then every bound recorded before in its original order, so     *)
(* the stored bounds become the floor bound followed by the prior bounds;   *)
(* a later floor collision, and a wall collision, only appends its bound.   *)
C23_FloorBoundReplayedFirst ==
    CollisionHandled =>
        LET c == Unwrap(last)
            normal == c.collision.normal
            prior == c.before.velocity_info.bounds.bounds
            stored == c.ret.velocity_info.bounds.bounds
        IN  IF is_floor(Up, normal) /\ ~c.before.ground_collision_handled
            THEN /\ stored = <<new_push(normal, Up)>> \o prior
                 /\ c.ret.velocity_info
                        = AppliedInOrder(c.initial_velocity_info,
                                         <<new_push(normal, Up)>> \o prior,
                                         <<new_pull(normal, Up)>>, 1)
                 /\ c.ret.ground_collision_handled
            ELSE IF is_floor(Up, normal)
            THEN stored = Append(prior, new_push(normal, Up))
            ELSE stored = Append(prior, new_push(normal, normal))

(* the first floor collision of a step, handled after the collisions with   *)
(* two different walls                                                      *)
C23_Witness ==
    /\ CollisionHandled
    /\ is_floor(Up, Unwrap(last).collision.normal)
    /\ ~Unwrap(last).before.ground_collision_handled
    /\ Len(Unwrap(last).before.velocity_info.bounds.bounds) = 2
    /\ Unwrap(last).before.velocity_info.bounds.bounds[1]
            # Unwrap(last).before.velocity_info.bounds.bounds[2]


(* whether get_ground_normal found a ground normal at the start of the      *)
(* last step                                                                *)
GroundFound ==
    /\ Unwrap(last).on_ground
    /\ IsSome(get_ground_normal(Unwrap(last).casts, 0, Up,
                                GroundDistanceTolerance).ground_normal)

(* the last step taken again with the jump input given *)
StepAgain(jump) ==
    run_character_step(Unwrap(last).casts, graph,
                       [node |-> Unwrap(last).node, local |-> LocalIdentity],
                       Unwrap(last).velocity, Unwrap(last).on_ground,
                       [Unwrap(last).input EXCEPT !.jump = jump], Unwrap(last).dt_seconds)

(* the last step taken off the ground, from the velocity whose up component *)
(* is the jump speed                                                        *)
StepAfterJump ==
    LET c == Unwrap(last)
    IN  character_step_with_collisions(
            c.casts, [node |-> c.node, local |-> LocalIdentity],
            [a |-> Vec2(c.velocity.a[1], JumpSpeed), e |-> Vec2(c.velocity.e[1], 0)],
            [c.input EXCEPT !.jump = FALSE], c.dt_seconds,
            sanitize_motion_input(c.input.movement), Up,
            [ground_normal |-> None, calls |-> c.ret.probes])

(* C24: a jump takes effect only when the jump input is set and a ground    *)
(* normal was found at the start of the step, which takes on_ground on      *)
(* entry; the step then goes on as a step off the ground, without ground    *)
(* controls, from the velocity whose up component is the jump speed; with   *)
(* on_ground false on entry the jump input changes nothing.                 *)
C24_JumpOnlyFromGround ==
    (StepTaken /\ ~Unwrap(last).input.no_clip /\ ~Unwrap(last).ret.panicked) =>
        /\ ~GroundFound => Unwrap(last).ret = StepAgain(~Unwrap(last).input.jump)
        /\ (Unwrap(last).input.jump /\ GroundFound) =>
                /\ Unwrap(last).ret.velocity = StepAfterJump.velocity
                /\ Unwrap(last).ret.translated = StepAfterJump.local
                /\ Unwrap(last).ret.on_ground = StepAfterJump.on_ground
                /\ Unwrap(last).ret.calls = StepAfterJump.calls

(* a jump from the ground with a movement input, ending with another        *)
(* velocity than the same step without the jump input                       *)
C24_Witness ==
    /\ StepTaken /\ ~Unwrap(last).input.no_clip /\ ~Unwrap(last).ret.panicked
    /\ Unwrap(last).input.jump /\ GroundFound
    /\ Unwrap(last).input.movement # Vec2(0, 0)
    /\ Unwrap(last).velocity.a[2] # 0
    /\ Unwrap(last).ret.velocity # StepAgain(FALSE).velocity


(* the last step was a check_collision *)
CollisionChecked == IsSome(last) /\ Unwrap(last).call = "check_collision"

(* C25: check_collision answers a displacement below the cutoff (in the     *)
(* model: of no length) with the stationary result, that is no              *)
(* displacement, the identity transform and no collision, without calling   *)
(* sphere_cast, whatever the cast would have answered.                      *)
C25_ShortDisplacementIsStationary ==
    (/\ CollisionChecked
     /\ is_zero(Scale(Unwrap(last).relative_displacement.per_tick,
                      Unwrap(last).relative_displacement.ticks))) =>
        /\ Unwrap(last).result.displacement_vector = Zeros
        /\ translate_along(LocalIdentity, Unwrap(last).result.displacement_transform)
                = LocalIdentity
        /\ Unwrap(last).result.collision = None
        /\ ~Unwrap(last).result.called

(* a check with no displacement left, after collisions have brought the     *)
(* velocity to a stop, where the cast would have reported a hit at once     *)
C25_Witness ==
    /\ CollisionChecked
    /\ is_zero(Unwrap(last).relative_displacement.per_tick)
    /\ ~is_zero(Unwrap(last).initial_velocity_info.average_velocity)
    /\ Unwrap(last).cast.kind = "Hit"
    /\ Unwrap(last).cast.at = 0
    /\ Unwrap(last).result = stationary(FALSE)

(* the last step handled a StateDelta *)
StateDeltaHandled ==
    /\ IsSome(last)
    /\ Unwrap(last).call = "handle_net"
    /\ Unwrap(last).msg.kind = "StateDelta"

(* step m is strictly newer than step x in the wrapping order: m is ahead   *)
(* of x by at least one and at most half of the range of the counter        *)
StrictlyNewer(m, x) == ((m - x) % TwoTo(StepBits)) \in 1..TwoTo(StepBits - 1)

(* C26: over any sequence of StateDelta and Spawns messages, a StateDelta   *)
(* changes positions only when the client has recorded a step and the       *)
(* message's step is strictly newer than it in the wrapping order; a        *)
(* StateDelta that is not strictly newer than the recorded step is          *)
(* discarded: the recorded step and every position stay as they were; a     *)
(* strictly newer one has its step recorded and its positions applied to    *)
(* the entities the client knows.                                           *)
C26_OnlyNewerStateDeltaApplied ==
    StateDeltaHandled =>
        LET now == Unwrap(last)
            newer == IsSome(now.before.step)
                        /\ StrictlyNewer(now.msg.step, Unwrap(now.before.step))
        IN  /\ now.ret.positions # now.before.positions => newer
            /\ (IsSome(now.before.step) /\ ~newer) => now.ret = now.before
            /\ newer =>
                /\ now.ret.step = Some(now.msg.step)
                /\ \A id \in EntityIds :
                        (IsSome(now.before.positions[id]) /\ IsSome(now.msg.positions[id]))
                            => now.ret.positions[id] = now.msg.positions[id]

(* a StateDelta whose step has wrapped around is applied over the greatest  *)
(* step, and moves an entity                                                *)
C26_Witness ==
    /\ StateDeltaHandled
    /\ Unwrap(last).before.step = Some(StepMax)
    /\ Unwrap(last).msg.step = StepMin
    /\ Unwrap(last).ret.positions # Unwrap(last).before.positions
    /\ Unwrap(last).ret.step = Some(StepMin)

(* the last step was a populate_chunk on a chunk whose own node has its     *)
(* value                                                                    *)
PopulateChunkOnPopulatedNode ==
    /\ IsSome(last)
    /\ Unwrap(last).call = "populate_chunk"
    /\ IsSome(graph_get(graph, Unwrap(last).chunk.node))

(* C27: populate_chunk does not panic when the chunk's own node has its     *)
(* value, whether the neighboring cells are missing from the graph, are in  *)
(* the graph without a node value, or have one.                             *)
C27_PopulateChunkNeverPanics == PopulateChunkOnPopulatedNode => ~panicked

(* C28: starting from chunks that are all Fresh, after any sequence of      *)
(* populate_chunk and update_block calls, no chunk next to a Populated      *)
(* chunk whose modified flag is true, along any of the three axes in either *)
(* direction, is Populated with Solid voxel data.                           *)
C28_NoSolidNextToModified ==
    \A c \in ExistingChunkIds(graph) :
        (IsPopulated(graph, c) /\ ChunkAt(graph, c).modified) =>
            \A nb \in ChunkNeighbors(graph, c) :
                IsPopulated(graph, nb) => ~is_solid(ChunkAt(graph, nb).voxels)

(* update_block has modified a chunk beside a chunk of the next node that   *)
(* was populated with Solid data: that chunk is Dense with a void margin    *)
C28_Witness ==
    /\ IsSome(last)
    /\ Unwrap(last).call = "update_block"
    /\ Unwrap(last).ret
    /\ ~panicked
    /\ ChunkAt(graph, Unwrap(last).chunk).modified
    /\ \E nb \in ChunkNeighbors(graph, Unwrap(last).chunk) :
            /\ nb.node # Unwrap(last).chunk.node
            /\ IsPopulated(graph, nb)
            /\ ~ChunkAt(graph, nb).modified
            /\ MarginCleared(ChunkAt(graph, nb).voxels, "Dirt")

(* the chunks that are in the Generating state *)
GeneratingChunks ==
    { c \in ExistingChunkIds(graph) :
        IsSome(get_chunk(graph, c)) /\ ChunkAt(graph, c).tag = "Generating" }

(* no populate_chunk or update_block has been called: only load_chunks and  *)
(* drive have changed the state of a chunk                                  *)
OnlyLoaderChangedChunks == budget.total = MaxOwnerCalls

(* C29: the fill counter equals the number of requests submitted and not    *)
(* yet committed by drive (those waiting on the input channel, held by a    *)
(* task, or waiting on the output channel), so that drive, which decrements *)
(* it once for every result it takes, never brings it below zero; as long   *)
(* as only load_chunks and drive have changed chunk states, it also equals  *)
(* the number of chunks in the Generating state.                            *)
C29_FillCountsRequestsInFlight ==
    /\ loader.fill = InFlight(loader)
    /\ Len(loader.recv) <= loader.fill
    /\ OnlyLoaderChangedChunks => loader.fill = Cardinality(GeneratingChunks)

(* after a drive that committed one result: a chunk is Populated, two       *)
(* requests are in flight, one of them waiting for drive, and two chunks    *)
(* are Generating                                                           *)
C29_Witness ==
    /\ OnlyLoaderChangedChunks
    /\ hist.k = Some(1)
    /\ loader.fill = 2
    /\ Len(loader.recv) = 1
    /\ Cardinality(GeneratingChunks) = 2
    /\ \E c \in ExistingChunkIds(graph) : IsPopulated(graph, c)

(* C30: a sphere_cast takes from its queue at most one chunk more than the  *)
(* graph has chunks, and ends with Ok or with OutOfBounds.                  *)
C30_CastEndsWithinBound ==
    CastTaken =>
        /\ Len(Unwrap(last).ret.visits) <= Cardinality(ExistingChunkIds(graph)) + 1
        /\ Unwrap(last).ret.result \in {"Ok", "OutOfBounds"}

====
